---- MODULE Spec2Model ----
(***************************************************************************)
(* Model of pkg/bootstrap/bootstrap.go of rke2: Stage, the local image     *)
(* locator (preloadBootstrapFromRuntime, preloadBootstrapImage,            *)
(* preloadFile), extractToDirs with extract, and the manifest rewriter     *)
(* (setChartValues, rewriteChart).                                         *)
(*                                                                         *)
(* The filesystem is the state.  Strings the code inspects or builds       *)
(* (tags, registry names, chart values) are sequences of tokens, so that   *)
(* concatenation and pattern matching are computed.  An I/O call whose     *)
(* error the code inspects may fail nondeterministically.  The deferred    *)
(* os.RemoveAll of the staging directory, which the call itself created    *)
(* and whose result is discarded, is modelled by its effect.  The symlink  *)
(* rewrite works on whatever an earlier run or a user left at              *)
(* <dataDir>/bin; each of its two calls may fail, and Stage ignores that.  *)
(***************************************************************************)
EXTENDS Integers, Sequences, FiniteSets, TLC

\* ------------------------------------------------------------------ bounds
\* Number of entries considered in <dataDir>/agent/images.
MaxImageFiles == 2
\* Number of distinct entry names inside one directory (bin, manifests).
MaxNames == 2

\* Number of chunks a decompressed stream delivers before end of file.
MaxChunks == 3

\* Number of path elements in the name of a tar header.
MaxPathLen == 3

\* Number of times Stage is run again after it was killed or has returned.
MaxRuns == 2

Names == 1..MaxNames
ImageIds == 1..MaxImageFiles

\* ------------------------------------------------------------ string values
\* name.DefaultRegistry of go-containerregistry, compared at line 312.
DefaultRegistry == <<"index.docker.io">>
PrivateRegistry == <<"r.io">>
\* helm.DefaultJobImage, used at lines 517-520.
DefaultJobImage == <<"klipper-helm">>
Digits == {"0", "1", "7"}

\* releasePattern = regexp.MustCompile("^v[0-9]")
releasePattern(t) == Len(t) >= 2 /\ t[1] = "v" /\ t[2] \in Digits

\* ------------------------------------------------------- directory entries
\* An entry of a directory: nothing, a regular file, or a subdirectory whose
\* own content is opaque (full: it is not empty).  ver tells a pre-existing
\* entry ("old") from one extracted from the image ("new").
None == [k |-> "none"]
File(ver, doc) == [k |-> "file", ver |-> ver, doc |-> doc]
SubDir(ver, full) == [k |-> "dir", ver |-> ver, full |-> full]

\* A directory: absent, or a mapping of names to entries.
NoDir == [ex |-> FALSE]
DirOf(ents) == [ex |-> TRUE, ents |-> ents]
EmptyEnts == [n \in Names |-> None]
EmptyDir == DirOf(EmptyEnts)
IsEmptyDir(d) == d.ex /\ \A n \in Names : d.ents[n] = None
NamesIn(d) == IF d.ex THEN {n \in Names : d.ents[n] # None} ELSE {}

\* dirExists: os.Stat succeeds and the path is a directory.
dirExists(d) == d.ex

\* ------------------------------------------------------- manifest documents
\* A decoded value of the Set mapping (intstr.IntOrString), or no entry.
NoVal == [t |-> "none"]
StrV(s) == [t |-> "str", s |-> s]
IntV(s) == [t |-> "int", s |-> s]
\* The same value as written in a file: a YAML scalar, quoted or plain.
Scalar(q, s) == [t |-> "scalar", q |-> q, s |-> s]
\* IntOrString.StrVal: the string of a string value, "" for anything else.
StrVal(v) == IF v.t = "str" THEN v.s ELSE <<>>

IsNumeric(s) == Len(s) > 0 /\ \A i \in 1..Len(s) : s[i] \in Digits

\* File bytes.  raw: the bytes are not the serializer's own output (comments,
\* key order, formatting), so re-encoding the same document changes them.
Blob == [kind |-> "blob"]
Junk == [kind |-> "junk"]
OtherObj == [kind |-> "other"]
ChartDoc(dd, reg, job, raw) ==
    [kind |-> "chart", dd |-> dd, reg |-> reg, job |-> job, raw |-> raw]


\* serializer.Decode of one value of Set: a quoted scalar is a string, a
\* plain scalar is an integer when it reads as a number.
DecodeVal(y) ==
    IF y.t = "none" THEN NoVal
    ELSE IF y.q THEN StrV(y.s)
    ELSE IF IsNumeric(y.s) THEN IntV(y.s)
    ELSE StrV(y.s)

\* serializer.Encode of one value of Set: a string that would read back as
\* something else (a number, the empty string) is written quoted.
\* (A serializer that writes every string plain.)
EncodeValPlain(v) ==
    IF v.t = "none" THEN NoVal ELSE Scalar(FALSE, v.s)
EncodeVal(v) ==
    IF v.t = "none" THEN NoVal
    ELSE IF v.t = "int" THEN Scalar(FALSE, v.s)
    ELSE Scalar(IsNumeric(v.s) \/ v.s = <<>>, v.s)

\* serializer.Decode (line 487) followed by the HelmChart type assertion
\* (line 494): ok is FALSE for bytes that do not decode, chart is FALSE
\* for a decoded object of another type.
\* (A variant without the type assertion: any decoded object is patched.)
DecodeNoTypeCheck(doc) ==
    IF doc.kind = "junk"
    THEN [ok |-> FALSE, chart |-> FALSE, dd |-> NoVal, reg |-> NoVal, job |-> <<>>]
    ELSE [ok |-> TRUE, chart |-> TRUE,
          dd |-> IF doc.kind = "chart" THEN DecodeVal(doc.dd) ELSE NoVal,
          reg |-> IF doc.kind = "chart" THEN DecodeVal(doc.reg) ELSE NoVal,
          job |-> IF doc.kind = "chart" THEN doc.job ELSE <<>>]
Decode(doc) ==
    IF doc.kind = "chart"
    THEN [ok |-> TRUE, chart |-> TRUE, dd |-> DecodeVal(doc.dd),
          reg |-> DecodeVal(doc.reg), job |-> doc.job]
    ELSE [ok |-> doc.kind = "other", chart |-> FALSE, dd |-> NoVal,
          reg |-> NoVal, job |-> <<>>]

\* serializer.Encode (line 533): the serializer's own form of the chart.
Encode(c) == ChartDoc(EncodeVal(c.dd), EncodeVal(c.reg), c.job, FALSE)

\* jobImage, lines 517-520.
jobImage(sdr) ==
    IF sdr # <<>> THEN sdr \o <<"/">> \o DefaultJobImage ELSE DefaultJobImage

\* The three comparisons of rewriteChart, lines 507-525: the chart with the
\* desired values, and whether any of them differed (chartChanged).
Patched(c, dataDir, sdr) ==
    [c EXCEPT !.dd = IF StrVal(c.dd) # dataDir THEN StrV(dataDir) ELSE c.dd,
              !.reg = IF StrVal(c.reg) # sdr THEN StrV(sdr) ELSE c.reg,
              !.job = jobImage(sdr)]
chartChanged(c, dataDir, sdr) ==
    \/ StrVal(c.dd) # dataDir
    \/ StrVal(c.reg) # sdr
    \/ c.job # jobImage(sdr)

\* rewriteChart on the bytes doc of one file.  fault is the I/O failure the
\* file's environment produces: "read" (ioutil.ReadFile), "open"
\* (os.OpenFile), "encode" (Encode or Close after the file was truncated),
\* or "none".  Result: the error, whether the file was opened for writing
\* (and so truncated), and the bytes left behind.
rewriteChart(doc, dataDir, sdr, fault) ==
    LET dec == Decode(doc)
        same == [err |-> FALSE, wrote |-> FALSE, doc |-> doc]
    IN  IF fault = "read" THEN [same EXCEPT !.err = TRUE]
        ELSE IF ~dec.ok \/ ~dec.chart THEN same
        ELSE IF ~chartChanged(dec, dataDir, sdr) THEN same
        ELSE IF fault = "open" THEN [same EXCEPT !.err = TRUE]
        ELSE IF fault = "encode"
             THEN [err |-> TRUE, wrote |-> TRUE, doc |-> Junk]
        ELSE [err |-> FALSE, wrote |-> TRUE,
              doc |-> Encode(Patched(dec, dataDir, sdr))]

\* The walk filter of setChartValues, lines 452-459: odd names stand for
\* paths ending in .yaml or .yml, even names for any other path.
HasYamlSuffix(n) == n % 2 = 1

\* ------------------------------------------------------------ rename(2)
\* os.Rename of one entry onto another, lines 287 and 294: "ok", "exist"
\* (an error os.IsExist accepts: the target is a directory that is not
\* empty) or "other" (a file onto a directory, a directory onto a file).
RenameEntry(src, dst) ==
    IF dst.k = "none" THEN "ok"
    ELSE IF src.k = "file" THEN (IF dst.k = "file" THEN "ok" ELSE "other")
    ELSE IF dst.k = "file" THEN "other"
    ELSE IF dst.full THEN "exist" ELSE "ok"

\* os.Rename of a staged subtree onto its destination directory, line 268.
RenameDir(dst) ==
    IF ~dst.ex \/ IsEmptyDir(dst) THEN "ok" ELSE "exist"

\* ------------------------------------------------------------- the image
Subs == {"bin", "charts"}
\* One tar header of the flattened image: parent is filepath.Dir(h.Name);
\* name 0 is the header of the subtree directory itself ("bin/").
Entry(typ, parent, name, doc) ==
    [typ |-> typ, parent |-> parent, name |-> name, doc |-> doc]
ImageChart == ChartDoc(NoVal, NoVal, <<>>, TRUE)
BinEntries ==
    <<Entry("dir", "bin", 0, Blob)>> \o [i \in Names |-> Entry("reg", "bin", i, Blob)]
\* The charts subtree with the names up to last, the last one of type typ.
ChartEntries(typ, last) ==
    <<Entry("dir", "charts", 0, Blob)>>
        \o [i \in 1..last |-> Entry(IF i = last THEN typ ELSE "reg", "charts", i, ImageChart)]
EtcEntries == <<Entry("reg", "etc", 1, Blob)>>
\* The images considered: a complete one, one whose last chart entry is a
\* directory header, one with a single chart, one without charts, one
\* without bin, and one with a file header that precedes the header of its
\* directory.
TarFull == BinEntries \o EtcEntries \o ChartEntries("reg", MaxNames)
TarDirs == BinEntries \o ChartEntries("dir", MaxNames)
TarPartial == BinEntries \o ChartEntries("reg", 1)
TarNoCharts == BinEntries \o EtcEntries
TarNoBin == ChartEntries("reg", MaxNames)
TarUnordered == <<Entry("reg", "charts", 1, ImageChart)>> \o ChartEntries("reg", 1)
\* An image whose first bin file precedes the header of the bin directory.
TarBinLate ==
    <<Entry("reg", "bin", 1, Blob), Entry("dir", "bin", 0, Blob)>>
        \o [i \in 1..(MaxNames - 1) |-> Entry("reg", "bin", i + 1, Blob)]
        \o ChartEntries("reg", 1)
Tars == {TarFull, TarDirs, TarPartial, TarNoCharts, TarNoBin, TarUnordered}

\* The files of subtree s in the image, as extraction of all of the tar
\* leaves them.
ImageFiles(t, s) ==
    [n \in Names |->
        IF \E i \in 1..Len(t) : t[i].parent = s /\ t[i].name = n
        THEN LET i == CHOOSE i \in 1..Len(t) : t[i].parent = s /\ t[i].name = n
             IN  IF t[i].typ = "reg" THEN File("new", t[i].doc)
                 ELSE SubDir("new", FALSE)
        ELSE None]

\* ------------------------------------------------------------ references
TagRef(t) == [kind |-> "tag", tag |-> t]
DigestRef(d) == [kind |-> "digest", digest |-> d]

\* strings.SplitN(str, ":", 2), lines 221-225: what follows the first ":".
AfterColon(d) ==
    IF \E i \in 1..Len(d) : d[i] = ":"
    THEN LET i == CHOOSE i \in 1..Len(d) :
                    d[i] = ":" /\ \A j \in 1..(i - 1) : d[j] # ":"
         IN  SubSeq(d, i + 1, Len(d))
    ELSE d

\* name.Tag.String(): registry, repository and tag of the reference.
Repository == <<"rancher/rke2-runtime">>
RefString(r, reg) == reg \o <<"/">> \o Repository \o <<":">> \o r.tag

\* hex.EncodeToString(sha256.Sum256(s))[:12], line 217-218: the hash is a
\* symbol of what was hashed, so that different strings have different
\* hashes.
Hex12Sha256(s) == [hex12sha256 |-> s]

\* releaseRefDigest, lines 215-228.  The identity of a version tag is the
\* tag, "-" and the hash of the whole reference string.
\* (Two variants: one accepts every tag, one hashes the tag alone.)
releaseRefDigestAnyTag(r, reg) ==
    IF r.kind = "tag"
    THEN [ok |-> TRUE,
          id |-> [tag |-> r.tag, sep |-> "-",
                  sha |-> Hex12Sha256(RefString(r, reg))]]
    ELSE [ok |-> TRUE, id |-> [hex |-> AfterColon(r.digest)]]
releaseRefDigestHashOfTag(r, reg) ==
    IF r.kind = "tag" /\ releasePattern(r.tag)
    THEN [ok |-> TRUE,
          id |-> [tag |-> r.tag, sep |-> "-", sha |-> Hex12Sha256(r.tag)]]
    ELSE IF r.kind = "digest"
    THEN [ok |-> TRUE, id |-> [hex |-> AfterColon(r.digest)]]
    ELSE [ok |-> FALSE, id |-> [hex |-> <<>>]]
releaseRefDigest(r, reg) ==
    IF r.kind = "tag" /\ releasePattern(r.tag)
    THEN [ok |-> TRUE,
          id |-> [tag |-> r.tag, sep |-> "-",
                  sha |-> Hex12Sha256(RefString(r, reg))]]
    ELSE IF r.kind = "digest"
    THEN [ok |-> TRUE, id |-> [hex |-> AfterColon(r.digest)]]
    ELSE [ok |-> FALSE, id |-> [hex |-> <<>>]]

\* preloadBootstrapFromRuntime, lines 311-314: the registries under which
\* the reference is looked up, in order.
Refs(reg) ==
    IF reg # DefaultRegistry THEN <<reg, DefaultRegistry>> ELSE <<reg>>

\* ----------------------------------------------------- the images directory
\* An entry of <dataDir>/agent/images: nothing, a subdirectory, a
\* subdirectory or file the walk cannot read ("bad"), a .txt file, a file
\* with an unhandled suffix, an archive that cannot be read, an archive
\* without the tag, or an archive holding the tag under registry reg.
ImgEnt(k) == [k |-> k, reg |-> <<>>]
Has(reg) == [k |-> "has", reg |-> reg]

\* preloadFile, lines 375-436, for the tag under registry reg: the image
\* ("img"), an error ("err") or neither ("nil").
preloadFile(e, reg) ==
    IF e.k = "txt" THEN "nil"
    ELSE IF e.k = "unhandled" THEN "err"
    ELSE IF e.k = "has" /\ e.reg = reg THEN "img"
    ELSE "nil"

\* The files the walk of lines 347-357 collects (everything that is not a
\* directory), and whether the walk reports an error.
WalkFiles(ents) == {i \in ImageIds : ents[i].k \notin {"none", "dir", "bad"}}
WalkFails(ents) == \E i \in ImageIds : ents[i].k = "bad"

\* ------------------------------------------------------------------ state
VARIABLES
    \* inputs of the run
    ref,        \* resolver.MustGetReference(images.Runtime), without registry
    registry,   \* resolver.Registry.Name()
    dataDir,    \* the dataDir argument, as the rewriter writes it
    imgDir,     \* <dataDir>/agent/images: "absent", "unreadable", "present"
    imgEnts,    \* its entries
    tar,        \* the flattened filesystem of the runtime image
    rwFault,    \* the I/O failure each manifest file produces
    \* the filesystem under dataDir
    dest,       \* the runtime bin directory and the manifests directory
    parent,     \* whether the parent directory of each exists
    staging,    \* the temporary directory of extractToDirs
    symlink,    \* <dataDir>/bin: "none", "stale", "current" or "dir"
    \* the run
    pc,         \* the statement about to execute
    mode,       \* "stage": Stage runs; "twice": setChartValues runs twice
    refs,       \* registries still to try (preloadBootstrapFromRuntime)
    files,      \* files still to check (preloadBootstrapImage)
    img,        \* the resolved image: "none", "local" or "remote"
    plan,       \* extractPaths: the subtrees to extract
    tpos,       \* position of extract in the tar
    todo,       \* subtrees still to place
    cur,        \* the subtree being merged
    mlist,      \* the listing of the staged subtree still to move
    errs,       \* the errors accumulated so far
    ret,        \* the error extractToDirs returns: a set, {} for nil
    result,     \* what Stage returned: "running", "ok" or "err"
    stageErr,   \* the step whose error Stage returned
    rwTodo,     \* manifest files still to rewrite
    rwErrs,     \* files whose rewrite failed in this pass
    run,        \* the pass of setChartValues (1 or 2)
    writes,     \* files opened for writing in this pass
    \* history
    pre,        \* dest, parent and symlink when the run began
    snap,       \* the manifests directory after the first pass
    io,         \* the kinds of I/O performed so far
    fails,      \* every failure that occurred during placement
    tried,      \* the subtrees whose placement was attempted
    moved,      \* names whose staged entry was moved into dest, per subtree
    \* a stream opened by one of the openers of preloadFile
    wkind,      \* its wrapper: "zstd", "multi", "split"; "none": no stream
    rdLeft,     \* chunks the decompressor has still to deliver
    rdLast,     \* what the last Read returned: "none", "data", "eof", "err"
    rClosed,    \* Close was called on the decompressor
    cClosed,    \* Close was called on the file handle
    closeRet,   \* what Close returned: "pending", or the errors (<<>>: nil)
    closeHist,  \* which of the underlying closes failed
    suffix,     \* the suffix of the file preloadFile is given; "none": no file
    fh,         \* the handle os.Open returned: "none", "open" or "closed"
    opRet,      \* the opener: "idle", or what it returned: "stream" or "err"
    refDigest,  \* the identity Stage computed, line 90
    \* extract over headers with any names
    xfs,        \* what exists below targetDir: a set of [p: path, k: kind]
    xpc,        \* "run", "eof" (extract returned nil) or "err"
    xskip,      \* a header whose directory is no key of dirs changed xfs
    xdirs,      \* the dirs argument of extract
    calls,      \* the calls the merge made for each staged name, per subtree
    attempts,   \* the registries preloadBootstrapImage was called with
    runs,       \* how many times Stage was started again
    \* two invocations of Stage on one data directory
    inv,        \* each invocation: its position and its local variables
    temps       \* the runtime-* directories that exist under dataDir

vars == <<ref, registry, dataDir, imgDir, imgEnts, tar, rwFault, dest, parent,
          staging, symlink, pc, mode, refs, files, img, plan, tpos, todo, cur,
          mlist, errs, ret, result, stageErr, rwTodo, rwErrs, run, writes,
          pre, snap, io, fails, tried, moved, wkind, rdLeft, rdLast, rClosed,
          cClosed, closeRet, closeHist, suffix, fh, opRet, refDigest, xfs, xpc, xskip, xdirs, calls,
          attempts, runs, inv, temps>>

raceVars == <<inv, temps>>
streamVars == <<wkind, rdLeft, rdLast, rClosed, cClosed, closeRet, closeHist,
                suffix, fh, opRet>>
\* The arguments and the environment of Stage, and with refDigest what no
\* step after the first changes.
pathVars == <<xfs, xpc, xskip, xdirs>>
args == <<ref, registry, dataDir, imgDir, imgEnts, tar, rwFault, mode, pre,
          streamVars, pathVars, runs, raceVars>>
inputs == <<args, refDigest, calls, attempts>>
fsVars == <<dest, parent, staging, symlink>>
scanVars == <<refs, files, img>>
extVars == <<plan, tpos, todo, cur, mlist, errs, ret, fails, tried, moved>>
rwVars == <<rwTodo, rwErrs, run, writes, snap>>

NoStaging == [ex |-> FALSE]
NoDigest == [hex |-> <<>>]
Err(s, n, op) == [sub |-> s, name |-> n, op |-> op]

\* The names ioutil.TempDir may draw, and the invocations.
TempNames == {1, 2}
Procs == {1, 2}
NoTemps == [n \in TempNames |-> NoStaging]
\* An invocation that has not begun: tempDir 0 is no directory, buf holds
\* the name and the bytes rewriteChart read.
IdleInv ==
    [pc |-> "Idle", tempDir |-> 0, plan |-> {}, tpos |-> 1, todo |-> {},
     cur |-> "bin", files |-> <<>>, errs |-> {}, ret |-> "running",
     walk |-> <<>>, charts |-> {}, buf |-> [n |-> 0, doc |-> Blob]]
\* No second invocation: Stage runs alone.
NoRace ==
    /\ inv = [q \in Procs |-> IdleInv]
    /\ temps = NoTemps

\* The state every run starts from, the inputs and the filesystem given.
Start(m, p) ==
    /\ NoRace
    /\ mode = m
    /\ pc = p
    /\ staging = NoStaging
    /\ refs = <<>>
    /\ files = {}
    /\ img = "none"
    /\ plan = {}
    /\ tpos = 1
    /\ todo = {}
    /\ cur = "bin"
    /\ mlist = <<>>
    /\ errs = {}
    /\ ret = {}
    /\ result = "running"
    /\ stageErr = "none"
    /\ rwTodo = {}
    /\ rwErrs = {}
    /\ run = 1
    /\ writes = 0
    /\ pre = [dest |-> dest, parent |-> parent, symlink |-> symlink]
    /\ snap = dest["charts"]
    /\ io = {}
    /\ fails = {}
    /\ tried = {}
    /\ moved = [s \in Subs |-> {}]
    /\ refDigest = NoDigest
    /\ calls = [s \in Subs |-> [n \in Names |-> <<>>]]
    /\ attempts = <<>>
    /\ runs = 0

\* extract by header names does not run.
NoPaths ==
    /\ xfs = {}
    /\ xpc = "eof"
    /\ xskip = FALSE
    /\ xdirs = {}

\* No stream is open.
NoStream ==
    /\ wkind = "none"
    /\ rdLeft = 0
    /\ rdLast = "none"
    /\ rClosed = FALSE
    /\ cClosed = FALSE
    /\ closeRet = "pending"
    /\ closeHist = [r |-> FALSE, c |-> FALSE]
    /\ suffix = "none"
    /\ fh = "none"
    /\ opRet = "idle"

\* ------------------------------------------------------------------ Stage
\* Stage returns err at step: lines 92, 111, 118, 138, 143, 149.
Fail(step) ==
    /\ pc' = "Done"
    /\ result' = "err"
    /\ stageErr' = step

\* Lines 88-98: the identity of the reference, or the error.
StageBeginPc(ok) == IF ok THEN "Preload" ELSE "Done"
StageBegin ==
    /\ pc = "Stage"
    /\ LET d == releaseRefDigest(ref, registry)
       IN  /\ pc' = StageBeginPc(d.ok)
           /\ result' = IF d.ok THEN "running" ELSE "err"
           /\ stageErr' = IF d.ok THEN "none" ELSE "reference"
           /\ refDigest' = d.id
    /\ refs' = Refs(registry)
    /\ UNCHANGED <<args, calls, attempts, fsVars, files, img, extVars, rwVars,
                   io>>

\* Where Stage goes once preloadBootstrapFromRuntime returned img,
\* lines 101-108.
\* (A variant that pulls whether or not an image was found.)
AfterLocalAlwaysPull(i) == "Remote"
AfterLocal(i) == IF i = "none" THEN "Remote" ELSE "Plan"

\* preloadBootstrapFromRuntime, lines 315-324, with the head of
\* preloadBootstrapImage, lines 330-357: the next registry is tried, its
\* reference must be a tag, the images directory is examined and walked.
\* A failure is logged and the next registry is tried.
\* The references the loop of lines 315-323 goes on to after
\* preloadBootstrapImage returned no image, with an error or without.
\* (A variant that returns the error and tries no other reference.)
NextRefsStopOnError(rs, err) == IF err THEN <<>> ELSE Tail(rs)
NextRefs(rs, err) == Tail(rs)

PreloadNext ==
    /\ pc = "Preload"
    /\ IF refs = <<>>
       THEN /\ pc' = AfterLocal("none")
            /\ UNCHANGED <<refs, files, io, attempts>>
       ELSE /\ attempts' = Append(attempts, Head(refs))
            /\ IF ref.kind # "tag"
               THEN /\ refs' = NextRefs(refs, FALSE)
                    /\ UNCHANGED <<pc, files, io>>
               ELSE IF imgDir # "present"
               THEN /\ refs' = NextRefs(refs, imgDir = "unreadable")
                    /\ io' = io \cup {"stat-images"}
                    /\ UNCHANGED <<pc, files>>
               ELSE IF WalkFails(imgEnts)
               THEN /\ refs' = NextRefs(refs, TRUE)
                    /\ io' = io \cup {"stat-images", "walk-images"}
                    /\ UNCHANGED <<pc, files>>
               ELSE /\ files' = WalkFiles(imgEnts)
                    /\ io' = io \cup {"stat-images", "walk-images"}
                    /\ pc' = "Scan"
                    /\ UNCHANGED refs
    /\ UNCHANGED <<args, refDigest, calls, fsVars, img, extVars, rwVars, result,
                   stageErr>>

\* What is left to check after a file that gave no image, lines 362-368.
\* (A variant that ends the scan at the first such file.)
RestAbort(fs, f) == {}
Rest(fs, f) == fs \ {f}

\* The loop of preloadBootstrapImage, lines 360-371: the files are visited
\* in the order of a Go map, that is in any order.
ScanFile ==
    /\ pc = "Scan"
    /\ files # {}
    /\ \E f \in files :
          IF preloadFile(imgEnts[f], Head(refs)) = "img"
          THEN /\ img' = "local"
               /\ pc' = AfterLocal("local")
               /\ UNCHANGED <<refs, files>>
          ELSE /\ files' = Rest(files, f)
               /\ UNCHANGED <<img, pc, refs>>
    /\ io' = io \cup {"scan-file"}
    /\ UNCHANGED <<inputs, fsVars, extVars, rwVars, result, stageErr>>

\* Line 370-371: no file held the tag under this registry.
ScanMiss ==
    /\ pc = "Scan"
    /\ files = {}
    /\ refs' = Tail(refs)
    /\ pc' = "Preload"
    /\ UNCHANGED <<inputs, fsVars, files, img, extVars, rwVars, result,
                   stageErr, io>>

\* Where Stage goes after the remote pull, lines 109-120.
\* (A variant that goes on after a failed pull.)
AfterRemoteIgnoreErr(ok) == "Plan"
AfterRemote(ok) == IF ok THEN "Plan" ELSE "Done"

\* Lines 108-120: the private registry configuration is loaded and the
\* image pulled; either may fail.
RemotePull ==
    /\ pc = "Remote"
    /\ \E out \in {"ok", "registries", "pull"} :
          /\ pc' = AfterRemote(out = "ok")
          /\ result' = IF out = "ok" THEN "running" ELSE "err"
          /\ stageErr' = IF out = "ok" THEN "none" ELSE out
          /\ img' = IF out = "ok" THEN "remote" ELSE img
          /\ io' = io \cup (IF out = "registries" THEN {"registries"}
                                                  ELSE {"registries", "remote"})
    /\ UNCHANGED <<inputs, fsVars, refs, files, extVars, rwVars>>

\* extractPaths, lines 126-134.
\* (A variant that plans bin every time.)
extractPathsAlwaysBin(binExists) == {"charts", "bin"}
extractPaths(binExists) ==
    IF binExists THEN {"charts"} ELSE {"charts", "bin"}

\* Lines 122-134: the plan is built from whether the bin directory exists.
BuildPlan ==
    /\ pc = "Plan"
    /\ plan' = extractPaths(dirExists(dest["bin"]))
    /\ io' = io \cup {"stat-bin"}
    /\ pc' = "TempDir"
    /\ UNCHANGED <<inputs, fsVars, scanVars, tpos, todo, cur, mlist, errs, ret,
                   fails, tried, moved, rwVars, result, stageErr>>

\* ---------------------------------------------------------- extractToDirs
RECURSIVE Sorted(_)
\* ioutil.ReadDir, line 278: the names in increasing order.
Sorted(S) ==
    IF S = {} THEN <<>>
    ELSE LET m == CHOOSE x \in S : \A y \in S : x <= y
         IN  <<m>> \o Sorted(S \ {m})

\* How extractToDirs leaves after the staging directory was created: by
\* way of the deferred os.RemoveAll(tempDir) of line 237, whatever the
\* path ("extract": line 244, "mkdir": line 263, "end": line 304).
\* (A variant without the defer, whose early return forgets the removal.)
ExitPcNoDefer(path) == IF path = "mkdir" THEN "Return" ELSE "Defer"
ExitPc(path) == "Defer"

\* Line 233: ioutil.TempDir creates the staging directory, or fails.
TempDir ==
    /\ pc = "TempDir"
    /\ \E ok \in BOOLEAN :
          IF ok
          THEN /\ staging' = [ex |-> TRUE, sub |-> [s \in Subs |-> NoDir]]
               /\ pc' = "Extract"
               /\ ret' = ret
          ELSE /\ ret' = {Err("", 0, "tempdir")}
               /\ pc' = "Return"
               /\ staging' = staging
    /\ io' = io \cup {"tempdir"}
    /\ tpos' = 1
    /\ todo' = plan
    /\ UNCHANGED <<inputs, dest, parent, symlink, scanVars, plan, cur,
                   mlist, errs, fails, tried, moved, rwVars, result, stageErr>>

\* The body of the loop of extract for one header, lines 175-207: the
\* staged subtrees afterwards, or ok = FALSE when os.OpenFile fails
\* because the directory of the file is missing or the name is one of a
\* directory.
ExtractEntryAll(st, dirs, e) ==
    LET d == st[e.parent]
    IN  IF e.parent \notin Subs THEN [ok |-> TRUE, st |-> st]
        ELSE IF e.typ = "dir"
        THEN [ok |-> TRUE, st |-> [st EXCEPT ![e.parent] =
                IF e.name = 0 THEN (IF d.ex THEN d ELSE EmptyDir)
                ELSE IF ~d.ex
                THEN DirOf([EmptyEnts EXCEPT ![e.name] = SubDir("new", FALSE)])
                ELSE IF d.ents[e.name] # None THEN d
                ELSE DirOf([d.ents EXCEPT ![e.name] = SubDir("new", FALSE)])]]
        ELSE IF ~d.ex \/ d.ents[e.name].k = "dir" THEN [ok |-> FALSE, st |-> st]
        ELSE [ok |-> TRUE, st |-> [st EXCEPT ![e.parent] =
                DirOf([d.ents EXCEPT ![e.name] = File("new", e.doc)])]]
\* (A variant that passes over a file it cannot create.)
ExtractEntrySkipFailed(st, dirs, e) ==
    IF e.parent \notin dirs \/ ~ExtractEntryAll(st, dirs, e).ok
    THEN [ok |-> TRUE, st |-> st]
    ELSE ExtractEntryAll(st, dirs, e)
ExtractEntry(st, dirs, e) ==
    IF e.parent \notin dirs THEN [ok |-> TRUE, st |-> st]
    ELSE ExtractEntryAll(st, dirs, e)

\* Lines 243-245: where extractToDirs goes when extract returned an error.
\* (A variant that goes on to placement with what was staged.)
ExtractFailPcPlaces == "Place"
ExtractFailPc == ExitPc("extract")

\* extract, lines 161-209, one header at a time: at the end of the tar
\* placement begins; a read, create or copy failure returns the error.
Extract ==
    /\ pc = "Extract"
    /\ IF tpos > Len(tar)
       THEN /\ pc' = "Place"
            /\ UNCHANGED <<staging, tpos, ret>>
       ELSE \E fault \in BOOLEAN :
              LET e == tar[tpos]
                  r == ExtractEntry(staging.sub, plan, e)
              IN  IF fault \/ ~r.ok
                  THEN /\ ret' = {Err(e.parent, e.name, "extract")}
                       /\ pc' = ExtractFailPc
                       /\ UNCHANGED <<staging, tpos>>
                  ELSE /\ staging' = [staging EXCEPT !.sub = r.st]
                       /\ tpos' = tpos + 1
                       /\ UNCHANGED <<pc, ret>>
    /\ io' = io \cup {"extract"}
    /\ UNCHANGED <<inputs, dest, parent, symlink, scanVars, plan, todo, cur,
                   mlist, errs, fails, tried, moved, rwVars, result, stageErr>>

\* What the loop of lines 250-302 does after recording a failure of one
\* subtree at lines 253, 273 and 280: it continues with the next one.
\* At line 263 (the destination's parent cannot be created) it returns.
MkdirFailPc == ExitPc("mkdir")

\* Lines 250-282 for one planned subtree s, taken in the order of a Go
\* map: the staged subtree is renamed onto its destination, or the
\* per-file merge begins, or a failure is recorded.  fault is the call
\* that fails: "mkdir", "rename", "readdir" or "none".
PlaceSubtree(s, fault) ==
    LET src == staging.sub[s]
        e == Err(s, 0, IF ~src.ex THEN "stat" ELSE fault)
        r == IF fault = "rename" THEN "other" ELSE RenameDir(dest[s])
    IN  /\ tried' = tried \cup {s}
        /\ todo' = todo \ {s}
        /\ IF ~src.ex
           THEN /\ errs' = errs \cup {e}
                /\ fails' = fails \cup {e}
                /\ UNCHANGED <<pc, ret, dest, parent, staging, cur, mlist, moved>>
           ELSE IF fault = "mkdir"
           THEN /\ ~parent[s]
                /\ ret' = {e}
                /\ fails' = fails \cup {e}
                /\ pc' = MkdirFailPc
                /\ UNCHANGED <<errs, dest, parent, staging, cur, mlist, moved>>
           ELSE /\ parent' = [parent EXCEPT ![s] = TRUE]
                /\ ret' = ret
                /\ IF r = "ok"
                   THEN /\ dest' = [dest EXCEPT ![s] = src]
                        /\ staging' = [staging EXCEPT !.sub[s] = NoDir]
                        /\ moved' = [moved EXCEPT ![s] = NamesIn(src)]
                        /\ UNCHANGED <<pc, errs, fails, cur, mlist>>
                   ELSE IF r = "other" \/ fault = "readdir"
                   THEN /\ errs' = errs \cup {e}
                        /\ fails' = fails \cup {e}
                        /\ UNCHANGED <<pc, dest, staging, cur, mlist, moved>>
                   ELSE /\ cur' = s
                        /\ mlist' = Sorted(NamesIn(src))
                        /\ pc' = "Merge"
                        /\ UNCHANGED <<errs, fails, dest, staging, moved>>

Place ==
    /\ pc = "Place"
    /\ todo # {}
    /\ \E s \in todo, fault \in {"none", "mkdir", "rename", "readdir"} :
          PlaceSubtree(s, fault)
    /\ io' = io \cup {"place"}
    /\ UNCHANGED <<inputs, symlink, scanVars, plan, tpos, rwVars, result,
                   stageErr>>

\* Line 304: every subtree was visited; the accumulated errors return.
PlaceEnd ==
    /\ pc = "Place"
    /\ todo = {}
    /\ ret' = errs
    /\ pc' = ExitPc("end")
    /\ UNCHANGED <<inputs, fsVars, scanVars, plan, tpos, todo, cur, mlist,
                   errs, fails, tried, moved, rwVars, result, stageErr, io>>

\* Lines 285-300 for one listed file: staged entry src, destination entry
\* dst, fault the call that fails ("rename", "remove", "rename2" or
\* "none").  Result: the destination entry afterwards, whether src was
\* moved, the failing call ("none" without error), and the calls made.
\* (Two variants: one removes the destination entry before the first
\* rename, one leaves an existing destination entry in place.)
mergeFileRemoveFirst(src, dst, fault) ==
    IF fault = "rename"
    THEN [dst |-> None, moved |-> FALSE, err |-> "rename",
          calls |-> <<"remove", "rename">>]
    ELSE [dst |-> src, moved |-> TRUE, err |-> "none",
          calls |-> <<"remove", "rename">>]
mergeFileKeepOld(src, dst, fault) ==
    IF dst.k # "none"
    THEN [dst |-> dst, moved |-> FALSE, err |-> "none", calls |-> <<"rename">>]
    ELSE [dst |-> src, moved |-> TRUE, err |-> "none", calls |-> <<"rename">>]
mergeFile(src, dst, fault) ==
    LET r == IF fault = "rename" THEN "other" ELSE RenameEntry(src, dst)
    IN  IF r = "ok"
        THEN [dst |-> src, moved |-> TRUE, err |-> "none",
              calls |-> <<"rename">>]
        ELSE IF r = "other"
        THEN [dst |-> dst, moved |-> FALSE, err |-> "rename",
              calls |-> <<"rename">>]
        ELSE IF fault = "remove"
        THEN [dst |-> dst, moved |-> FALSE, err |-> "remove",
              calls |-> <<"rename", "remove">>]
        ELSE IF fault = "rename2"
        THEN [dst |-> None, moved |-> FALSE, err |-> "rename2",
              calls |-> <<"rename", "remove", "rename">>]
        ELSE [dst |-> src, moved |-> TRUE, err |-> "none",
              calls |-> <<"rename", "remove", "rename">>]

\* The files the merge loop goes on to after one file, failed or not.
\* (A variant that leaves the loop at the first failure.)
MergeRestStop(l, err) == IF err = "none" THEN Tail(l) ELSE <<>>
MergeRest(l, err) == Tail(l)

\* The loop of lines 284-301, one listed file at a time.
MergeFile ==
    /\ pc = "Merge"
    /\ mlist # <<>>
    /\ \E fault \in {"none", "rename", "remove", "rename2"} :
          LET n == Head(mlist)
              src == staging.sub[cur].ents[n]
              m == mergeFile(src, dest[cur].ents[n], fault)
              e == Err(cur, n, m.err)
          IN  /\ dest' = [dest EXCEPT ![cur].ents[n] = m.dst]
              /\ staging' = IF m.moved
                             THEN [staging EXCEPT !.sub[cur].ents[n] = None]
                             ELSE staging
              /\ moved' = IF m.moved
                           THEN [moved EXCEPT ![cur] = @ \cup {n}]
                           ELSE moved
              /\ errs' = IF m.err = "none" THEN errs ELSE errs \cup {e}
              /\ fails' = IF m.err = "none" THEN fails ELSE fails \cup {e}
              /\ mlist' = MergeRest(mlist, m.err)
              /\ calls' = [calls EXCEPT ![cur][n] = m.calls]
    /\ UNCHANGED <<args, refDigest, attempts, parent, symlink, scanVars, plan, tpos, todo, cur,
                   ret, tried, rwVars, result, stageErr, pc, io>>

\* Line 284: the listing is exhausted; the subtree loop continues.
MergeEnd ==
    /\ pc = "Merge"
    /\ mlist = <<>>
    /\ pc' = "Place"
    /\ UNCHANGED <<inputs, fsVars, scanVars, plan, tpos, todo, cur, mlist,
                   errs, ret, fails, tried, moved, rwVars, result, stageErr, io>>

\* Line 237, deferred: the staging directory is removed as extractToDirs
\* returns.
Defer ==
    /\ pc = "Defer"
    /\ staging' = NoStaging
    /\ pc' = "Return"
    /\ UNCHANGED <<inputs, dest, parent, symlink, scanVars, extVars, rwVars,
                   result, stageErr, io>>

\* Where Stage goes with the error of extractToDirs, lines 137-139.
\* (A variant that goes on whatever extractToDirs returned.)
AfterExtractIgnoreErr(r) == "Chmod"
AfterExtract(r) == IF r # {} THEN "Done" ELSE "Chmod"

ExtractReturn ==
    /\ pc = "Return"
    /\ pc' = AfterExtract(ret)
    /\ result' = IF ret # {} THEN "err" ELSE "running"
    /\ stageErr' = IF ret # {} THEN "extract" ELSE "none"
    /\ UNCHANGED <<inputs, fsVars, scanVars, extVars, rwVars, io>>

\* Lines 142-144: os.Chmod of the runtime bin directory.
Chmod ==
    /\ pc = "Chmod"
    /\ \E fault \in BOOLEAN :
          IF fault \/ ~dest["bin"].ex
          THEN Fail("chmod")
          ELSE /\ pc' = "Rewrite"
               /\ UNCHANGED <<result, stageErr>>
    /\ io' = io \cup {"chmod"}
    /\ UNCHANGED <<inputs, fsVars, scanVars, extVars, rwVars>>

\* ---------------------------------------------------------- setChartValues
\* The files the walk of lines 448-464 collects.  The walk is recursive:
\* a name stands for any path below the manifests directory; what lies
\* inside an opaque subdirectory entry is not followed.
ChartFiles(d) ==
    {n \in NamesIn(d) : d.ents[n].k = "file" /\ HasYamlSuffix(n)}

\* Lines 445-464: the manifests directory is walked.  The walk fails when
\* the directory is missing or cannot be read (rwFault[0] = "walk").
RewriteWalk ==
    /\ pc = "Rewrite"
    /\ writes' = 0
    /\ io' = io \cup {"rewrite"}
    /\ IF ~dest["charts"].ex \/ rwFault[0] = "walk"
       THEN /\ rwTodo' = {}
            /\ rwErrs' = {0}
       ELSE /\ rwTodo' = ChartFiles(dest["charts"])
            /\ rwErrs' = {}
    /\ pc' = "RwFile"
    /\ UNCHANGED <<inputs, fsVars, scanVars, extVars, run, snap, result,
                   stageErr>>

\* The loop of lines 467-471: rewriteChart on each collected file, in the
\* order of a Go map.
RewriteFile ==
    /\ pc = "RwFile"
    /\ \E n \in rwTodo :
          LET f == dest["charts"].ents[n]
              r == rewriteChart(f.doc, dataDir, registry, rwFault[n])
          IN  /\ dest' = [dest EXCEPT !["charts"].ents[n] = File(f.ver, r.doc)]
              /\ writes' = IF r.wrote THEN writes + 1 ELSE writes
              /\ rwErrs' = IF r.err THEN rwErrs \cup {n} ELSE rwErrs
              /\ rwTodo' = rwTodo \ {n}
    /\ UNCHANGED <<inputs, parent, staging, symlink, scanVars, extVars, run,
                   snap, result, stageErr, pc, io>>

\* Lines 148-150: Stage returns the error of setChartValues, or goes on.
RewriteEndStage ==
    /\ pc = "RwFile"
    /\ rwTodo = {}
    /\ mode = "stage"
    /\ IF rwErrs # {}
       THEN Fail("rewrite")
       ELSE /\ pc' = "Symlink"
            /\ UNCHANGED <<result, stageErr>>
    /\ UNCHANGED <<inputs, fsVars, scanVars, extVars, rwVars, io>>

\* setChartValues called twice in a row with the same arguments: after the
\* first pass the directory is recorded and the second pass begins.
RewriteEndTwice ==
    /\ pc = "RwFile"
    /\ rwTodo = {}
    /\ mode = "twice"
    /\ IF run = 1
       THEN /\ run' = 2
            /\ snap' = dest["charts"]
            /\ pc' = "Rewrite"
            /\ UNCHANGED <<result, stageErr>>
       ELSE /\ pc' = "Done"
            /\ result' = IF rwErrs # {} THEN "err" ELSE "ok"
            /\ stageErr' = IF rwErrs # {} THEN "rewrite" ELSE "none"
            /\ UNCHANGED <<run, snap>>
    /\ UNCHANGED <<inputs, fsVars, scanVars, extVars, rwTodo, rwErrs, writes, io>>

\* Lines 152-156: the symlink is removed and created again; Stage returns
\* the bin directory.
\* <dataDir>/bin after lines 153-154: prev is what it was ("none": absent,
\* "stale": a symlink to another bin directory, "current": the symlink to
\* refBinDir, "dir": a directory), fault the call that fails.  os.RemoveAll
\* of an absent path returns nil; after a failed removal os.Symlink finds
\* the path taken and fails too.
\* (A variant without the removal: os.Symlink fails on any existing path.)
symlinkBinDirNoRemove(prev, fault) ==
    IF prev # "none" THEN prev
    ELSE IF fault = "symlink" THEN "none"
    ELSE "current"
symlinkBinDir(prev, fault) ==
    IF fault = "remove" /\ prev # "none" THEN prev
    ELSE IF fault = "symlink" THEN "none"
    ELSE "current"

Symlink ==
    /\ pc = "Symlink"
    /\ \E fault \in {"none", "remove", "symlink"} :
          /\ symlink' = symlinkBinDir(symlink, fault)
          /\ io' = io \cup {"symlink"}
                    \cup (IF fault = "remove" /\ symlink # "none"
                          THEN {"symlink-remove-failed"} ELSE {})
                    \cup (IF fault = "symlink"
                          THEN {"symlink-create-failed"} ELSE {})
    /\ pc' = "Done"
    /\ result' = "ok"
    /\ UNCHANGED <<inputs, dest, parent, staging, scanVars, extVars, rwVars,
                   stageErr>>

\* ------------------------------------------------------------ the inputs
NoFaults == [n \in 0..MaxNames |-> "none"]
\* A manifest as a user or an earlier run left it.
OldChart == ChartDoc(NoVal, NoVal, <<>>, TRUE)
\* What a name of a destination directory may hold before the run.
OldEntries ==
    {None, File("old", OldChart), SubDir("old", TRUE), SubDir("old", FALSE)}
\* The bin directory an earlier run of the same reference left.
OldBin == DirOf([n \in Names |-> File("old", Blob)])
ImgKinds ==
    {ImgEnt(k) : k \in {"none", "bad", "txt", "unhandled", "notag"}}
        \cup {Has(DefaultRegistry), Has(PrivateRegistry)}
References ==
    {TagRef(<<"v", "1">>), TagRef(<<"latest">>), TagRef(<<"v">>),
     DigestRef(<<"sha256", ":", "ab">>), DigestRef(<<"ab">>)}

\* The filesystem under dataDir before the run: the bin directory of the
\* reference absent or left by an earlier run, the manifests directory
\* absent or with any content.
InitFs(bs, ms, links) ==
    /\ dest \in {[s \in Subs |-> IF s = "bin" THEN b ELSE m] : b \in bs, m \in ms}
    /\ parent = [s \in Subs |-> dest[s].ex]
    /\ symlink \in links
OldManifests == DirOf([n \in Names |-> File("old", OldChart)])
AnyManifests == {NoDir} \cup {DirOf(f) : f \in [Names -> OldEntries]}

\* Stage with every reference shape and every content of the images
\* directory, on a fresh data directory or one staged before, with or
\* without a symlink of an earlier run.
InitResolve ==
    /\ ref \in References
    /\ registry \in {DefaultRegistry, PrivateRegistry}
    /\ imgDir \in {"absent", "unreadable", "present"}
    /\ imgEnts \in [ImageIds -> ImgKinds]
    /\ tar = TarFull
    /\ rwFault = NoFaults
    /\ \/ InitFs({NoDir}, {NoDir}, {"none", "stale", "dir"})
       \/ InitFs({OldBin}, {OldManifests}, {"none", "stale", "current"})

\* Stage of a version tag under a private registry, found in a local
\* archive or pulled, with every image, every content of the manifests
\* directory and every failing manifest file.
InitPlace ==
    /\ ref = TagRef(<<"v", "1">>)
    /\ registry = PrivateRegistry
    /\ imgDir = "present"
    /\ imgEnts \in {[i \in ImageIds |-> ImgEnt("none")],
                    [i \in ImageIds |-> Has(DefaultRegistry)]}
    /\ tar \in Tars
    /\ rwFault \in {NoFaults, [NoFaults EXCEPT ![0] = "walk"],
                    [NoFaults EXCEPT ![1] = "open"]}
    /\ InitFs({NoDir, OldBin}, AnyManifests, {"stale"})

InitStage ==
    /\ dataDir = <<"/d">>
    /\ (InitResolve \/ InitPlace)
    /\ Start("stage", "Stage")
    /\ NoStream
    /\ NoPaths

\* What a manifest file may hold before setChartValues runs.
SetScalars ==
    {NoVal, Scalar(FALSE, <<"/d">>), Scalar(FALSE, <<"7">>),
     Scalar(TRUE, <<"7">>), Scalar(FALSE, PrivateRegistry)}
ManifestDocs ==
    {Junk, OtherObj}
        \cup {ChartDoc(d, r, j, raw) :
                d \in SetScalars,
                r \in {NoVal, Scalar(FALSE, PrivateRegistry), Scalar(FALSE, <<"7">>)},
                j \in {<<>>, DefaultJobImage, jobImage(PrivateRegistry)},
                raw \in BOOLEAN}
ManifestEntries(n) ==
    IF HasYamlSuffix(n)
    THEN {None, SubDir("old", TRUE)} \cup {File("old", d) : d \in ManifestDocs}
    ELSE {None, File("old", OldChart)}
RwFaults ==
    {NoFaults, [NoFaults EXCEPT ![0] = "walk"]}
        \cup {[NoFaults EXCEPT ![1] = f] : f \in {"read", "open", "encode"}}

TwiceManifests ==
    LET yaml == {n \in Names : HasYamlSuffix(n)}
        ents == {[n \in Names |-> IF n \in yaml THEN y[n] ELSE o[n]] :
                    y \in [yaml -> ManifestEntries(1)],
                    o \in [Names \ yaml -> ManifestEntries(2)]}
    IN  {NoDir} \cup {DirOf(g) : g \in ents}

\* setChartValues run twice on any manifests directory, with any data
\* directory and registry prefix.
InitTwice ==
    /\ ref = TagRef(<<"v", "1">>)
    /\ registry \in {<<>>, PrivateRegistry, <<"7">>}
    /\ dataDir \in {<<"/d">>, <<"7">>}
    /\ imgDir = "absent"
    /\ imgEnts = [i \in ImageIds |-> ImgEnt("none")]
    /\ tar = TarFull
    /\ rwFault \in RwFaults
    /\ dest \in {[s \in Subs |-> IF s = "bin" THEN OldBin ELSE m] : m \in TwiceManifests}
    /\ parent = [s \in Subs |-> TRUE]
    /\ symlink = "current"
    /\ Start("twice", "Rewrite")
    /\ NoStream
    /\ NoPaths


Next ==
    \/ StageBegin
    \/ PreloadNext
    \/ ScanFile
    \/ ScanMiss
    \/ RemotePull
    \/ BuildPlan
    \/ TempDir
    \/ Extract
    \/ Place
    \/ PlaceEnd
    \/ MergeFile
    \/ MergeEnd
    \/ Defer
    \/ ExtractReturn
    \/ Chmod
    \/ RewriteWalk
    \/ RewriteFile
    \/ RewriteEndStage
    \/ Symlink

Spec == InitStage /\ [][Next]_vars

NextTwice ==
    \/ RewriteWalk
    \/ RewriteFile
    \/ RewriteEndTwice

SpecTwice == InitTwice /\ [][NextTwice]_vars

\* ------------------------------------------------ Stage killed and run again
\* The process is killed before any step, or has returned, and Stage is
\* called again with the same arguments on the filesystem as it is.  A
\* staging directory left behind stays on disk; the new call makes its own.
\* A kill inside a step leaves what a failure of one of its calls leaves.
Kill ==
    /\ mode = "stage"
    /\ pc # "Stage"
    /\ runs < MaxRuns
    /\ runs' = runs + 1
    /\ pc' = "Stage"
    /\ staging' = NoStaging
    /\ refs' = <<>>
    /\ files' = {}
    /\ img' = "none"
    /\ plan' = {}
    /\ tpos' = 1
    /\ todo' = {}
    /\ cur' = "bin"
    /\ mlist' = <<>>
    /\ errs' = {}
    /\ ret' = {}
    /\ result' = "running"
    /\ stageErr' = "none"
    /\ rwTodo' = {}
    /\ rwErrs' = {}
    /\ run' = 1
    /\ writes' = 0
    /\ pre' = [dest |-> dest, parent |-> parent, symlink |-> symlink]
    /\ snap' = dest["charts"]
    /\ io' = {}
    /\ fails' = {}
    /\ tried' = {}
    /\ moved' = [s \in Subs |-> {}]
    /\ refDigest' = NoDigest
    /\ calls' = [s \in Subs |-> [n \in Names |-> <<>>]]
    /\ attempts' = <<>>
    /\ UNCHANGED <<ref, registry, dataDir, imgDir, imgEnts, tar, rwFault, mode,
                   dest, parent, symlink, streamVars, pathVars, raceVars>>

\* Stage on a data directory no earlier run has touched, or one whose
\* manifests directory a user filled, with the image found in a local
\* archive or pulled.
InitCrash ==
    /\ dataDir = <<"/d">>
    /\ ref = TagRef(<<"v", "1">>)
    /\ registry = PrivateRegistry
    /\ imgDir = "present"
    /\ imgEnts \in {[i \in ImageIds |-> ImgEnt("notag")],
                    [i \in ImageIds |-> Has(DefaultRegistry)]}
    /\ tar \in {TarFull, TarBinLate, TarNoBin}
    /\ rwFault = NoFaults
    /\ InitFs({NoDir}, {NoDir, OldManifests}, {"none"})
    /\ Start("stage", "Stage")
    /\ NoStream
    /\ NoPaths

NextCrash == Next \/ Kill

SpecCrash == InitCrash /\ [][NextCrash]_vars

\* ------------------------------------------------- the stream wrappers
\* merr.NewErrors over the errors appended, in order; <<>> is nil.
CloseErrs(rErr, cErr) ==
    (IF rErr THEN <<"decompressor">> ELSE <<>>)
        \o (IF cErr THEN <<"file">> ELSE <<>>)

\* zstdReadCloser.Close: the decoder's Close has no result; the result is
\* that of the file handle's Close.
zstdClose(cErr) ==
    [rClosed |-> TRUE, cClosed |-> TRUE, ret |-> CloseErrs(FALSE, cErr)]

\* multiReadCloser.Close: both are closed, each error is appended.
\* (A variant that returns the decompressor's error at once.)
multiCloseEarlyReturn(rErr, cErr) ==
    IF rErr
    THEN [rClosed |-> TRUE, cClosed |-> FALSE, ret |-> <<"decompressor">>]
    ELSE [rClosed |-> TRUE, cClosed |-> TRUE, ret |-> CloseErrs(FALSE, cErr)]
multiClose(rErr, cErr) ==
    [rClosed |-> TRUE, cClosed |-> TRUE, ret |-> CloseErrs(rErr, cErr)]

\* splitReadCloser.Close: the reader has no Close; the result is that of the
\* file handle's Close.
splitClose(cErr) ==
    [rClosed |-> FALSE, cClosed |-> TRUE, ret |-> CloseErrs(FALSE, cErr)]

\* Read of the three wrappers returns w.r.Read(p): a chunk, end of file, or
\* the decompressor's error.
Read ==
    /\ wkind # "none"
    /\ closeRet = "pending"
    /\ \/ /\ rdLeft > 0
          /\ rdLeft' = rdLeft - 1
          /\ rdLast' = "data"
       \/ /\ rdLeft = 0
          /\ rdLast' = "eof"
          /\ UNCHANGED rdLeft
       \/ /\ rdLast' = "err"
          /\ UNCHANGED rdLeft
    /\ UNCHANGED <<ref, registry, dataDir, imgDir, imgEnts, tar, rwFault, mode,
                   pre, fsVars, scanVars, extVars, rwVars, pc, result,
                   stageErr, io, wkind, rClosed, cClosed, closeRet, closeHist,
                   suffix, fh, opRet, refDigest, calls, attempts, runs,
                   pathVars, raceVars>>

\* Close of the wrapper kind k, whose underlying closes fail or not.
Closed(k, r, rErr, cErr) ==
    /\ wkind = k
    /\ closeRet = "pending"
    /\ rClosed' = r.rClosed
    /\ cClosed' = r.cClosed
    /\ closeRet' = r.ret
    /\ closeHist' = [r |-> rErr, c |-> cErr /\ r.cClosed]
    /\ fh' = IF r.cClosed THEN "closed" ELSE fh
    /\ UNCHANGED <<ref, registry, dataDir, imgDir, imgEnts, tar, rwFault, mode,
                   pre, fsVars, scanVars, extVars, rwVars, pc, result,
                   stageErr, io, wkind, rdLeft, rdLast, suffix, opRet,
                   refDigest, calls, attempts, runs, pathVars, raceVars>>

ZstdClose == \E cErr \in BOOLEAN : Closed("zstd", zstdClose(cErr), FALSE, cErr)
MultiClose ==
    \E rErr, cErr \in BOOLEAN : Closed("multi", multiClose(rErr, cErr), rErr, cErr)
SplitClose == \E cErr \in BOOLEAN : Closed("split", splitClose(cErr), FALSE, cErr)

\* A stream of each kind, of every length, opened and not yet closed.
InitClose ==
    /\ dataDir = <<"/d">>
    /\ ref = TagRef(<<"v", "1">>)
    /\ registry = DefaultRegistry
    /\ imgDir = "present"
    /\ imgEnts = [i \in ImageIds |-> Has(DefaultRegistry)]
    /\ tar = TarFull
    /\ rwFault = NoFaults
    /\ InitFs({NoDir}, {NoDir}, {"none"})
    /\ Start("close", "Scan")
    /\ wkind \in {"zstd", "multi", "split"}
    /\ rdLeft \in 0..MaxChunks
    /\ rdLast = "none"
    /\ rClosed = FALSE
    /\ cClosed = FALSE
    /\ closeRet = "pending"
    /\ closeHist = [r |-> FALSE, c |-> FALSE]
    /\ suffix = "none"
    /\ fh = "open"
    /\ opRet = "stream"
    /\ NoPaths

NextClose ==
    \/ Read
    \/ ZstdClose
    \/ MultiClose
    \/ SplitClose

SpecClose == InitClose /\ [][NextClose]_vars

\* ------------------------------------------------ the openers of preloadFile
\* The suffixes the switch of preloadFile tells apart (HasSuffixI ignores
\* case), and one it does not handle.
Suffixes ==
    {".txt", ".tar", ".tar.lz4", ".tar.bz2", ".tbz", ".tar.gz", ".tgz",
     "tar.zst", ".tzst", ".zip"}

\* The wrapper the opener of a suffix returns: "file" is the *os.File
\* itself, "skip" the nil image of a .txt file, "unhandled" the default case.
WrapperOf(sfx) ==
    CASE sfx = ".txt" -> "skip"
      [] sfx = ".tar" -> "file"
      [] sfx \in {".tar.lz4", ".tar.bz2", ".tbz"} -> "split"
      [] sfx \in {".tar.gz", ".tgz"} -> "multi"
      [] sfx \in {"tar.zst", ".tzst"} -> "zstd"
      [] OTHER -> "unhandled"

\* One call of the opener of a suffix: os.Open fails or not, and for gzip
\* and zstd the construction of the decompressor fails or not.  lz4.NewReader
\* and bzip2.NewReader return no error.  The handle is what os.Open left.
opener(sfx, openErr, newErr) ==
    LET w == WrapperOf(sfx) IN
    IF openErr
    THEN [ret |-> "err", wkind |-> "none", fh |-> "none"]
    ELSE IF w \in {"multi", "zstd"} /\ newErr
    THEN [ret |-> "err", wkind |-> "none", fh |-> "open"]
    ELSE [ret |-> "stream", wkind |-> w, fh |-> "open"]

\* Close of the *os.File the .tar opener returns.
fileClose(cErr) ==
    [rClosed |-> FALSE, cClosed |-> TRUE, ret |-> CloseErrs(FALSE, cErr)]

\* preloadFile up to the first call of the opener it built; .txt and
\* unhandled suffixes return before any opener exists.
Open ==
    /\ opRet = "idle"
    /\ suffix # "none"
    /\ \/ /\ WrapperOf(suffix) \in {"skip", "unhandled"}
          /\ opRet' = WrapperOf(suffix)
          /\ UNCHANGED <<wkind, fh>>
       \/ /\ WrapperOf(suffix) \notin {"skip", "unhandled"}
          /\ \E openErr, newErr \in BOOLEAN :
                LET o == opener(suffix, openErr, newErr) IN
                /\ opRet' = o.ret
                /\ wkind' = o.wkind
                /\ fh' = o.fh
    /\ UNCHANGED <<ref, registry, dataDir, imgDir, imgEnts, tar, rwFault, mode,
                   pre, fsVars, scanVars, extVars, rwVars, pc, result,
                   stageErr, io, rdLeft, rdLast, rClosed, cClosed, closeRet,
                   closeHist, suffix, refDigest, calls, attempts, runs,
                   pathVars, raceVars>>

FileClose == \E cErr \in BOOLEAN : Closed("file", fileClose(cErr), FALSE, cErr)

\* A file of each suffix, its content of every length, not yet opened.
InitOpen ==
    /\ dataDir = <<"/d">>
    /\ ref = TagRef(<<"v", "1">>)
    /\ registry = DefaultRegistry
    /\ imgDir = "present"
    /\ imgEnts = [i \in ImageIds |-> Has(DefaultRegistry)]
    /\ tar = TarFull
    /\ rwFault = NoFaults
    /\ InitFs({NoDir}, {NoDir}, {"none"})
    /\ Start("open", "Scan")
    /\ wkind = "none"
    /\ rdLeft \in 0..MaxChunks
    /\ rdLast = "none"
    /\ rClosed = FALSE
    /\ cClosed = FALSE
    /\ closeRet = "pending"
    /\ closeHist = [r |-> FALSE, c |-> FALSE]
    /\ suffix \in Suffixes
    /\ fh = "none"
    /\ opRet = "idle"
    /\ NoPaths

NextOpen ==
    \/ Open
    \/ Read
    \/ ZstdClose
    \/ MultiClose
    \/ SplitClose
    \/ FileClose

SpecOpen == InitOpen /\ [][NextOpen]_vars

\* ------------------------------------- two invocations of Stage at once
\* Two invocations of Stage on the same data directory, image reference and
\* image, one step per filesystem operation, the steps of the two in any
\* order.  No operation fails unless the filesystem it meets makes it fail.
\* The image is given (resolving it writes nothing under dataDir) and the
\* layer cache of line 123 is left out.
soloVars ==
    <<ref, registry, dataDir, imgDir, imgEnts, tar, rwFault, mode, pre,
      staging, scanVars, extVars, rwVars, pc, result, stageErr, io,
      streamVars, pathVars, refDigest, calls, attempts, runs>>

\* Invocation p moves to position l with the changes c to its variables.
Goto(p, l, c) ==
    inv' = [inv EXCEPT ![p] =
              [f \in DOMAIN @ |-> IF f = "pc" THEN l
                                  ELSE IF f \in DOMAIN c THEN c[f] ELSE @[f]]]

\* Stage returns err, lines 138, 143, 149.
RaceFail(p, c) == Goto(p, "Done", c @@ [ret |-> "err"])

\* The staged subtree s of invocation p, and its staged entry n.
StagedDir(p, s) == temps[inv[p].tempDir].sub[s]
WithStaged(p, s, d) ==
    [temps EXCEPT ![inv[p].tempDir].sub[s] = d]

\* Lines 126-134: the plan, from whether the bin directory exists now.
RaceBegin(p) ==
    /\ inv[p].pc = "Stage"
    /\ LET pl == extractPaths(dirExists(dest["bin"]))
       IN  Goto(p, "TempDir", [plan |-> pl, todo |-> pl])
    /\ UNCHANGED <<soloVars, dest, parent, symlink, temps>>

\* Line 233: ioutil.TempDir creates a directory under a name that does not
\* exist (it draws another name when Mkdir reports that the name exists).
RaceTempDir(p) ==
    /\ inv[p].pc = "TempDir"
    /\ \E n \in TempNames :
          /\ ~temps[n].ex
          /\ temps' = [temps EXCEPT ![n] = [ex |-> TRUE, sub |-> [s \in Subs |-> NoDir]]]
          /\ Goto(p, "Extract", [tempDir |-> n, tpos |-> 1])
    /\ UNCHANGED <<soloVars, dest, parent, symlink>>

\* extract, one header at a time, into the invocation's own directory.
RaceExtract(p) ==
    /\ inv[p].pc = "Extract"
    /\ IF inv[p].tpos > Len(tar)
       THEN /\ Goto(p, "Place", << >>)
            /\ UNCHANGED temps
       ELSE LET t == inv[p].tempDir
                r == ExtractEntry(temps[t].sub, inv[p].plan, tar[inv[p].tpos])
            IN  IF r.ok
                THEN /\ temps' = [temps EXCEPT ![t].sub = r.st]
                     /\ Goto(p, "Extract", [tpos |-> inv[p].tpos + 1])
                ELSE /\ Goto(p, "Defer", [errs |-> {"extract"}])
                     /\ UNCHANGED temps
    /\ UNCHANGED <<soloVars, dest, parent, symlink>>

\* Lines 250-255: the next subtree of the map, in any order; os.Stat of the
\* staged subtree.
RacePlaceNext(p) ==
    /\ inv[p].pc = "Place"
    /\ \E s \in inv[p].todo :
          IF StagedDir(p, s).ex
          THEN Goto(p, "StatParent", [cur |-> s, todo |-> inv[p].todo \ {s}])
          ELSE Goto(p, "Place", [errs |-> inv[p].errs \cup {"stat"},
                                 todo |-> inv[p].todo \ {s}])
    /\ UNCHANGED <<soloVars, dest, parent, symlink, temps>>

\* Line 304: every subtree was visited.
RacePlaceEnd(p) ==
    /\ inv[p].pc = "Place"
    /\ inv[p].todo = {}
    /\ Goto(p, "Defer", << >>)
    /\ UNCHANGED <<soloVars, dest, parent, symlink, temps>>

\* Line 260: os.Stat of the parent of the destination.
RaceStatParent(p) ==
    /\ inv[p].pc = "StatParent"
    /\ Goto(p, IF parent[inv[p].cur] THEN "Rename" ELSE "MkdirAll", << >>)
    /\ UNCHANGED <<soloVars, dest, parent, symlink, temps>>

\* Line 261: os.MkdirAll, which succeeds on a directory that exists.
RaceMkdirAll(p) ==
    /\ inv[p].pc = "MkdirAll"
    /\ parent' = [parent EXCEPT ![inv[p].cur] = TRUE]
    /\ Goto(p, "Rename", << >>)
    /\ UNCHANGED <<soloVars, dest, symlink, temps>>

\* Lines 268-275: os.Rename of the staged subtree onto the destination.
RaceRename(p) ==
    /\ inv[p].pc = "Rename"
    /\ LET s == inv[p].cur IN
       IF RenameDir(dest[s]) = "ok"
       THEN /\ dest' = [dest EXCEPT ![s] = StagedDir(p, s)]
            /\ temps' = WithStaged(p, s, NoDir)
            /\ Goto(p, "Place", << >>)
       ELSE /\ Goto(p, "ReadDir", << >>)
            /\ UNCHANGED <<dest, temps>>
    /\ UNCHANGED <<soloVars, parent, symlink>>

\* Line 278: ioutil.ReadDir of the staged subtree.
RaceReadDir(p) ==
    /\ inv[p].pc = "ReadDir"
    /\ Goto(p, "Merge", [files |-> Sorted(NamesIn(StagedDir(p, inv[p].cur)))])
    /\ UNCHANGED <<soloVars, dest, parent, symlink, temps>>

\* The staged entry src of invocation p was renamed onto name n.
RaceMoved(p, s, n) ==
    /\ dest' = [dest EXCEPT ![s].ents[n] = StagedDir(p, s).ents[n]]
    /\ temps' = WithStaged(p, s, DirOf([StagedDir(p, s).ents EXCEPT ![n] = None]))

\* Line 287: the first os.Rename of one listed file.
RaceMergeRename(p) ==
    /\ inv[p].pc = "Merge"
    /\ inv[p].files # <<>>
    /\ LET s == inv[p].cur
           n == Head(inv[p].files)
           r == RenameEntry(StagedDir(p, s).ents[n], dest[s].ents[n])
       IN  IF r = "ok"
           THEN /\ RaceMoved(p, s, n)
                /\ Goto(p, "Merge", [files |-> Tail(inv[p].files)])
           ELSE IF r = "exist"
           THEN /\ Goto(p, "Remove", << >>)
                /\ UNCHANGED <<dest, temps>>
           ELSE /\ Goto(p, "Merge", [files |-> Tail(inv[p].files),
                                     errs |-> inv[p].errs \cup {"rename"}])
                /\ UNCHANGED <<dest, temps>>
    /\ UNCHANGED <<soloVars, parent, symlink>>

\* Line 284: the listing is exhausted.
RaceMergeEnd(p) ==
    /\ inv[p].pc = "Merge"
    /\ inv[p].files = <<>>
    /\ Goto(p, "Place", << >>)
    /\ UNCHANGED <<soloVars, dest, parent, symlink, temps>>

\* Line 289: os.RemoveAll of the destination entry.
RaceRemove(p) ==
    /\ inv[p].pc = "Remove"
    /\ dest' = [dest EXCEPT ![inv[p].cur].ents[Head(inv[p].files)] = None]
    /\ Goto(p, "Rename2", << >>)
    /\ UNCHANGED <<soloVars, parent, symlink, temps>>

\* Line 294: the second os.Rename, onto whatever is there by now.
RaceRename2(p) ==
    /\ inv[p].pc = "Rename2"
    /\ LET s == inv[p].cur
           n == Head(inv[p].files)
           r == RenameEntry(StagedDir(p, s).ents[n], dest[s].ents[n])
       IN  IF r = "ok"
           THEN /\ RaceMoved(p, s, n)
                /\ Goto(p, "Merge", [files |-> Tail(inv[p].files)])
           ELSE /\ Goto(p, "Merge", [files |-> Tail(inv[p].files),
                                     errs |-> inv[p].errs \cup {"rename2"}])
                /\ UNCHANGED <<dest, temps>>
    /\ UNCHANGED <<soloVars, parent, symlink>>

\* Line 237: the deferred os.RemoveAll(tempDir).
RaceDefer(p) ==
    /\ inv[p].pc = "Defer"
    /\ temps' = [temps EXCEPT ![inv[p].tempDir] = NoStaging]
    /\ Goto(p, "Return", [tempDir |-> 0])
    /\ UNCHANGED <<soloVars, dest, parent, symlink>>

\* Lines 137-139.
RaceReturn(p) ==
    /\ inv[p].pc = "Return"
    /\ IF inv[p].errs # {}
       THEN RaceFail(p, << >>)
       ELSE Goto(p, AfterExtract({}), << >>)
    /\ UNCHANGED <<soloVars, dest, parent, symlink, temps>>

\* Lines 142-144: os.Chmod of the runtime bin directory.
RaceChmod(p) ==
    /\ inv[p].pc = "Chmod"
    /\ IF dirExists(dest["bin"])
       THEN Goto(p, "Walk", << >>)
       ELSE RaceFail(p, [errs |-> {"chmod"}])
    /\ UNCHANGED <<soloVars, dest, parent, symlink, temps>>

\* filepath.Walk, line 448: Lstat of the root and the listing of its names.
RaceWalk(p) ==
    /\ inv[p].pc = "Walk"
    /\ IF dirExists(dest["charts"])
       THEN Goto(p, "Lstat", [walk |-> Sorted(NamesIn(dest["charts"])),
                              charts |-> {}])
       ELSE RaceFail(p, [errs |-> {"walk"}])
    /\ UNCHANGED <<soloVars, dest, parent, symlink, temps>>

\* filepath.Walk: Lstat of the next listed name; the callback returns the
\* error of a name that is gone (lines 449-451) and collects the files
\* with a yaml suffix.
RaceLstat(p) ==
    /\ inv[p].pc = "Lstat"
    /\ inv[p].walk # <<>>
    /\ LET n == Head(inv[p].walk)
           e == dest["charts"].ents[n]
       IN  IF e = None
           THEN RaceFail(p, [errs |-> {"walk"}])
           ELSE Goto(p, "Lstat",
                     [walk |-> Tail(inv[p].walk),
                      charts |-> IF e.k = "file" /\ HasYamlSuffix(n)
                                 THEN inv[p].charts \cup {n}
                                 ELSE inv[p].charts])
    /\ UNCHANGED <<soloVars, dest, parent, symlink, temps>>

\* The walk is over: the loop of line 467 begins.
RaceWalkEnd(p) ==
    /\ inv[p].pc = "Lstat"
    /\ inv[p].walk = <<>>
    /\ Goto(p, "ReadFile", << >>)
    /\ UNCHANGED <<soloVars, dest, parent, symlink, temps>>

\* Line 481: ioutil.ReadFile of one collected file, in any order.
RaceReadFile(p) ==
    /\ inv[p].pc = "ReadFile"
    /\ \E n \in inv[p].charts :
          LET e == dest["charts"].ents[n] IN
          IF e.k = "file"
          THEN Goto(p, "WriteFile", [buf |-> [n |-> n, doc |-> e.doc]])
          ELSE Goto(p, "ReadFile", [charts |-> inv[p].charts \ {n},
                                    errs |-> inv[p].errs \cup {"read"}])
    /\ UNCHANGED <<soloVars, dest, parent, symlink, temps>>

\* Lines 486-543 on the bytes read: the file is opened (and truncated)
\* and written only when a value differed.
RaceWriteFile(p) ==
    /\ inv[p].pc = "WriteFile"
    /\ LET n == inv[p].buf.n
           e == dest["charts"].ents[n]
           r == rewriteChart(inv[p].buf.doc, dataDir, registry, "none")
           rest == inv[p].charts \ {n}
       IN  IF ~r.wrote
           THEN /\ Goto(p, "ReadFile", [charts |-> rest])
                /\ UNCHANGED dest
           ELSE IF e.k # "file"
           THEN /\ Goto(p, "ReadFile", [charts |-> rest,
                                        errs |-> inv[p].errs \cup {"open"}])
                /\ UNCHANGED dest
           ELSE /\ dest' = [dest EXCEPT !["charts"].ents[n] = File(e.ver, r.doc)]
                /\ Goto(p, "ReadFile", [charts |-> rest])
    /\ UNCHANGED <<soloVars, parent, symlink, temps>>

\* Lines 148-150: Stage returns the error of setChartValues, or goes on.
RaceRewriteEnd(p) ==
    /\ inv[p].pc = "ReadFile"
    /\ inv[p].charts = {}
    /\ IF inv[p].errs # {}
       THEN RaceFail(p, << >>)
       ELSE Goto(p, "SymRemove", << >>)
    /\ UNCHANGED <<soloVars, dest, parent, symlink, temps>>

\* Line 153: os.RemoveAll of <dataDir>/bin.
RaceSymRemove(p) ==
    /\ inv[p].pc = "SymRemove"
    /\ symlink' = symlinkBinDir(symlink, "symlink")
    /\ Goto(p, "SymCreate", << >>)
    /\ UNCHANGED <<soloVars, dest, parent, temps>>

\* Lines 154-156: os.Symlink, which fails when the other invocation has
\* created the link meanwhile; the error is ignored.
RaceSymCreate(p) ==
    /\ inv[p].pc = "SymCreate"
    /\ symlink' = IF symlink = "none" THEN symlinkBinDir(symlink, "none")
                  ELSE symlink
    /\ Goto(p, "Done", [ret |-> "ok"])
    /\ UNCHANGED <<soloVars, dest, parent, temps>>

\* The images of the race: complete, or with a directory header among the
\* charts.
RaceTars == {TarFull, TarDirs}

\* A manifests directory on which one invocation alone places the charts
\* of image t without error: no rename of the merge meets an entry of the
\* other type.
RaceManifests(t) ==
    {NoDir} \cup
    {DirOf(f) : f \in {g \in [Names -> OldEntries] :
        \A n \in Names : RenameEntry(ImageFiles(t, "charts")[n], g[n]) # "other"}}

\* Both invocations are about to begin, on a fresh data directory or one an
\* earlier run of the same image left, whatever a user added to the
\* manifests.
InitRace ==
    /\ dataDir = <<"/d">>
    /\ ref = TagRef(<<"v", "1">>)
    /\ registry = PrivateRegistry
    /\ imgDir = "absent"
    /\ imgEnts = [i \in ImageIds |-> ImgEnt("none")]
    /\ tar \in RaceTars
    /\ rwFault = NoFaults
    /\ InitFs({NoDir, DirOf(ImageFiles(tar, "bin"))}, RaceManifests(tar),
              {"none", "stale"})
    /\ mode = "race"
    /\ pc = "Done"
    /\ staging = NoStaging
    /\ refs = <<>>
    /\ files = {}
    /\ img = "remote"
    /\ plan = {}
    /\ tpos = 1
    /\ todo = {}
    /\ cur = "bin"
    /\ mlist = <<>>
    /\ errs = {}
    /\ ret = {}
    /\ result = "running"
    /\ stageErr = "none"
    /\ rwTodo = {}
    /\ rwErrs = {}
    /\ run = 1
    /\ writes = 0
    /\ pre = [dest |-> dest, parent |-> parent, symlink |-> symlink]
    /\ snap = dest["charts"]
    /\ io = {}
    /\ fails = {}
    /\ tried = {}
    /\ moved = [s \in Subs |-> {}]
    /\ refDigest = releaseRefDigest(ref, registry).id
    /\ calls = [s \in Subs |-> [n \in Names |-> <<>>]]
    /\ attempts = <<>>
    /\ runs = 0
    /\ NoStream
    /\ NoPaths
    /\ inv = [q \in Procs |-> [IdleInv EXCEPT !.pc = "Stage"]]
    /\ temps = NoTemps

RaceStep(p) ==
    \/ RaceBegin(p)
    \/ RaceTempDir(p)
    \/ RaceExtract(p)
    \/ RacePlaceNext(p)
    \/ RacePlaceEnd(p)
    \/ RaceStatParent(p)
    \/ RaceMkdirAll(p)
    \/ RaceRename(p)
    \/ RaceReadDir(p)
    \/ RaceMergeRename(p)
    \/ RaceMergeEnd(p)
    \/ RaceRemove(p)
    \/ RaceRename2(p)
    \/ RaceDefer(p)
    \/ RaceReturn(p)
    \/ RaceChmod(p)
    \/ RaceWalk(p)
    \/ RaceLstat(p)
    \/ RaceWalkEnd(p)
    \/ RaceReadFile(p)
    \/ RaceWriteFile(p)
    \/ RaceRewriteEnd(p)
    \/ RaceSymRemove(p)
    \/ RaceSymCreate(p)

NextRace == \E p \in Procs : RaceStep(p)

SpecRace == InitRace /\ [][NextRace]_vars

\* ------------------------------------------------ extract, header by name
\* The name of a tar header: a sequence of path elements, "" as the last
\* one for a trailing "/", rooted for a leading "/".
Elements == {"bin", "charts", "x", ".."}
HeaderNames ==
    {n \in UNION {[1..l -> Elements \cup {""}] : l \in 1..MaxPathLen} :
        /\ \A i \in 1..(Len(n) - 1) : n[i] # ""
        /\ Len(n) = 1 => n[1] # ""}
Headers == [name : HeaderNames, rooted : BOOLEAN, typ : {"dir", "reg", "link"}]

RECURSIVE CleanFrom(_, _, _)
\* filepath.Clean, element by element: "" and "." are dropped, ".." drops
\* the element before it, is dropped itself at the root and kept at the
\* beginning of a path that is not rooted.
CleanFrom(done, rest, rooted) ==
    IF rest = <<>> THEN done
    ELSE LET c == Head(rest)
         IN  IF c = "" THEN CleanFrom(done, Tail(rest), rooted)
             ELSE IF c # ".." THEN CleanFrom(Append(done, c), Tail(rest), rooted)
             ELSE IF done # <<>> /\ done[Len(done)] # ".."
             THEN CleanFrom(SubSeq(done, 1, Len(done) - 1), Tail(rest), rooted)
             ELSE IF rooted THEN CleanFrom(done, Tail(rest), rooted)
             ELSE CleanFrom(Append(done, ".."), Tail(rest), rooted)
Clean(p, rooted) == CleanFrom(<<>>, p, rooted)

\* filepath.Dir(h.Name), line 175: the name without its last element,
\* cleaned.
Dir(h) == Clean(SubSeq(h.name, 1, Len(h.name) - 1), h.rooted)
\* The lookup dirs[targetDir] of lines 179 and 189: the directory of the
\* header is, as a string, a key of dirs.
\* (A variant that looks up the first element of the name.)
InDirsByFirstElement(h, dirs) == ~h.rooted /\ h.name[1] \in dirs
InDirs(h, dirs) == ~h.rooted /\ Len(Dir(h)) = 1 /\ Dir(h)[1] \in dirs
\* filepath.Join(targetDir, h.Name), line 174, relative to targetDir: a
\* path that begins with ".." lies outside of it.
TargetName(h) == Clean(h.name, FALSE)

Outside(p) == p # <<>> /\ p[1] = ".."
KindAt(fs, p) ==
    IF p = <<>> \/ (Outside(p) /\ \A e \in fs : e.p # p) THEN "dir"
    ELSE IF \E e \in fs : e.p = p THEN (CHOOSE e \in fs : e.p = p).k
    ELSE "none"
Prefixes(p) == {SubSeq(p, 1, i) : i \in 1..Len(p)}

\* The body of the loop for one header, lines 177-206, without I/O failure
\* of the environment.  A directory is made with its missing ancestors
\* unless os.Stat finds the path (lines 182-186); a file is created or
\* truncated by os.OpenFile, which fails when the path is a directory or
\* its directory is missing (line 195).  Every other type is passed over.
extractHeader(fs, dirs, h) ==
    LET t == TargetName(h)
        same == [ok |-> TRUE, fs |-> fs]
    IN  IF h.typ = "link" \/ ~InDirs(h, dirs) THEN same
        ELSE IF h.typ = "dir"
        THEN IF Outside(t) /\ \E e \in fs : e.p = t THEN same
             ELSE IF ~Outside(t) /\ KindAt(fs, t) # "none" THEN same
             ELSE IF \E q \in Prefixes(t) : KindAt(fs, q) = "file"
             THEN [ok |-> FALSE, fs |-> fs]
             ELSE [ok |-> TRUE,
                   fs |-> fs \cup {[p |-> q, k |-> "dir"] :
                                    q \in {r \in Prefixes(t) :
                                             \A e \in fs : e.p # r}}]
        ELSE IF t = <<>> \/ (\E e \in fs : e.p = t /\ e.k = "dir")
        THEN [ok |-> FALSE, fs |-> fs]
        ELSE IF KindAt(fs, SubSeq(t, 1, Len(t) - 1)) # "dir"
        THEN [ok |-> FALSE, fs |-> fs]
        ELSE [ok |-> TRUE,
              fs |-> {e \in fs : e.p # t} \cup {[p |-> t, k |-> "file"]}]

\* One iteration of the loop of extract, lines 166-207, for any header the
\* tar may hold next: t.Next or a write fails, or the header is handled.
ExtractHeader ==
    /\ xpc = "run"
    /\ \E h \in Headers, fault \in BOOLEAN :
          LET r == extractHeader(xfs, xdirs, h)
          IN  /\ xfs' = IF fault THEN xfs ELSE r.fs
              /\ xpc' = IF fault \/ ~r.ok THEN "err" ELSE "run"
              /\ xskip' = (xskip \/ (~fault /\ ~InDirs(h, xdirs) /\ r.fs # xfs))
    /\ UNCHANGED <<ref, registry, dataDir, imgDir, imgEnts, tar, rwFault, mode,
                   pre, fsVars, scanVars, extVars, rwVars, pc, result,
                   stageErr, io, streamVars, raceVars, refDigest, calls, attempts,
                   runs, xdirs>>

\* Lines 168-169: the end of the tar.
ExtractEof ==
    /\ xpc = "run"
    /\ xpc' = "eof"
    /\ UNCHANGED <<ref, registry, dataDir, imgDir, imgEnts, tar, rwFault, mode,
                   pre, fsVars, scanVars, extVars, rwVars, pc, result,
                   stageErr, io, streamVars, raceVars, refDigest, calls, attempts,
                   runs, xdirs, xfs, xskip>>

\* extract into an empty target directory, with either plan of Stage.
InitExtract ==
    /\ dataDir = <<"/d">>
    /\ ref = TagRef(<<"v", "1">>)
    /\ registry = DefaultRegistry
    /\ imgDir = "absent"
    /\ imgEnts = [i \in ImageIds |-> ImgEnt("none")]
    /\ tar = TarFull
    /\ rwFault = NoFaults
    /\ InitFs({NoDir}, {NoDir}, {"none"})
    /\ Start("extract", "Extract")
    /\ NoStream
    /\ xdirs \in {{"charts"}, {"bin", "charts"}}
    /\ xfs = {}
    /\ xpc = "run"
    /\ xskip = FALSE

NextExtract ==
    \/ ExtractHeader
    \/ ExtractEof

SpecExtract == InitExtract /\ [][NextExtract]_vars


\* ================================================================ claims
\* What complete extraction stages for subtree s, and the destination of s
\* once all of it is merged over the content from before the run.
Staged(s) == ImageFiles(tar, s)
Merged(s) ==
    [n \in Names |->
        IF Staged(s)[n] # None THEN Staged(s)[n] ELSE pre.dest[s].ents[n]]
\* Stage runs and setChartValues has not begun: the destinations hold what
\* placement left.
Placing == mode = "stage" /\ "rewrite" \notin io
\* The registries under which Stage looks the tag up.
Tried == {Refs(registry)[i] : i \in 1..Len(Refs(registry))}
BadShape == ~(ref.kind = "tag" /\ releasePattern(ref.tag)) /\ ref.kind # "digest"
FsUntouched ==
    /\ dest = pre.dest
    /\ parent = pre.parent
    /\ symlink = pre.symlink
    /\ ~staging.ex
    /\ "tempdir" \notin io

\* C1 (as stated): with a tag reference, if some file of the images
\* directory is an archive holding the requested tag, remote.Image is never
\* called, whatever else the scan encounters.
C1_Original ==
    (ref.kind = "tag" /\ imgDir = "present"
        /\ \E i \in ImageIds : imgEnts[i] = Has(registry))
    => "remote" \notin io

\* C1 (amended): with a tag reference, if the images directory is examined
\* and walked without error and some file of it is an archive holding the
\* tag under the configured or the default registry, remote.Image is never
\* called and the private registry configuration is never loaded, whatever
\* other files the scan visits and whatever preloadFile returns for them.
C1_LocalHitNeverPulls ==
    (ref.kind = "tag" /\ imgDir = "present" /\ ~WalkFails(imgEnts)
        /\ \E i \in ImageIds : imgEnts[i].k = "has" /\ imgEnts[i].reg \in Tried)
    => /\ "remote" \notin io
       /\ "registries" \notin io
       /\ img # "remote"

\* C1 witness: the image was found locally after a file with an unhandled
\* suffix and an archive without the tag were visited and passed over.
C1_Witness ==
    /\ img = "local"
    /\ result = "ok"
    /\ \E i \in WalkFiles(imgEnts) \ files : imgEnts[i].k = "unhandled"
    /\ "remote" \notin io

C3_MergeIsUnion ==
    \A s \in Subs :
        (Placing /\ s \in tried /\ ~(pc = "Merge" /\ cur = s)
            /\ pre.dest[s].ex /\ \A e \in fails : e.sub # s)
        => dest[s] = DirOf(Merged(s))

\* C3 witness: a merge without failure that replaced an earlier file,
\* replaced an earlier non-empty directory or kept an earlier entry the
\* image does not have.
C3_Witness ==
    /\ pc = "Return"
    /\ ret = {}
    /\ pre.dest["charts"].ex
    /\ \E n \in Names :
          /\ pre.dest["charts"].ents[n] = File("old", OldChart)
          /\ dest["charts"].ents[n] = File("new", ImageChart)
    /\ \E n \in Names :
          /\ pre.dest["charts"].ents[n] # None
          /\ Staged("charts")[n] = None
          /\ dest["charts"].ents[n] = pre.dest["charts"].ents[n]

\* C4 (as stated): when extractToDirs returns an error for a subtree, the
\* destination of that subtree holds either all of its earlier content or
\* all of the merged content.
C4_Original ==
    \A s \in Subs :
        (mode = "stage" /\ pc = "Return" /\ pre.dest[s].ex
            /\ \E e \in ret : e.sub = s)
        => dest[s] = pre.dest[s] \/ dest[s] = DirOf(Merged(s))

\* C4 (amended): placement into an existing destination is per name, not
\* atomic.  At every moment each name holds the staged entry (its move
\* succeeded), or nothing (its earlier entry was removed and the second
\* rename failed), or its earlier entry (everything else: not staged, not
\* reached yet, or a failed rename or removal).
C4_PerNameOutcome ==
    \A s \in Subs, n \in Names :
        (Placing /\ pre.dest[s].ex)
        => LET d == dest[s].ents[n]
           IN  IF n \in moved[s] THEN d = Staged(s)[n]
               ELSE IF Err(s, n, "rename2") \in fails THEN d = None
               ELSE d = pre.dest[s].ents[n]

\* C4 witness: extractToDirs returns an error for the manifests directory
\* after one staged file was moved in and the move of another failed.
C4_Witness ==
    /\ pc = "Return"
    /\ pre.dest["charts"].ex
    /\ \E n \in moved["charts"], m \in Names \ moved["charts"] :
          /\ \E e \in ret : e.sub = "charts" /\ e.name = m
          /\ pre.dest["charts"].ents[n] # None
          /\ dest["charts"].ents[n] = Staged("charts")[n]

\* C5 (as stated): when extractToDirs returns after placement began,
\* placement of every planned subtree was attempted and the returned error
\* holds every failure that occurred.
C5_AllAttemptedAllReported ==
    (mode = "stage" /\ pc = "Return" /\ "place" \in io)
    => tried = plan /\ ret = fails

C7_SecondPassWritesNothing ==
    (mode = "twice" /\ run = 2 /\ pc \in {"RwFile", "Done"})
    => writes = 0 /\ dest["charts"] = snap

\* C7 witness: both passes are done and the first one rewrote a chart.
C7_Witness ==
    /\ mode = "twice"
    /\ run = 2
    /\ pc = "Done"
    /\ \E n \in Names :
          /\ pre.dest["charts"].ex
          /\ pre.dest["charts"].ents[n].k = "file"
          /\ dest["charts"].ents[n] # pre.dest["charts"].ents[n]
          /\ dest["charts"].ents[n].doc.kind = "chart"

\* C8: the remote pull (with the loading of the registry configuration) is
\* attempted only after local resolution ended without an image; placement
\* begins only after extract read the whole tar without error; rewriting
\* begins only after placement ended and extractToDirs returned.
C8_PhaseOrder ==
    mode = "stage"
    => /\ (pc = "Remote" \/ "registries" \in io) => refs = <<>> /\ img # "local"
       /\ "place" \in io => tpos = Len(tar) + 1 /\ "extract" \in io
       /\ "rewrite" \in io
            => /\ tried = plan
               /\ todo = {}
               /\ mlist = <<>>
               /\ ret = {}
               /\ ~staging.ex
               /\ "place" \in io

\* C8 witness: a run that went through every phase: local miss, pull,
\* extraction, placement, rewriting.
C8_Witness ==
    /\ result = "ok"
    /\ img = "remote"
    /\ "walk-images" \in io
    /\ moved["bin"] # {}
    /\ writes > 0

\* C9: when the loading of the registry configuration or the pull fails,
\* Stage has returned an error and nothing under the data directory was
\* created or changed: no staging directory, no destination, no manifest,
\* not the symlink.
C9_PullFailureStopsStage ==
    stageErr \in {"registries", "pull"}
    => /\ result = "err"
       /\ pc = "Done"
       /\ FsUntouched
       /\ io \subseteq {"stat-images", "walk-images", "scan-file", "registries", "remote"}

\* C9 witness: the pull failed after a scan of the images directory found
\* nothing, on a data directory that was staged before.
C9_Witness ==
    /\ stageErr = "pull"
    /\ result = "err"
    /\ "scan-file" \in io
    /\ pre.dest["charts"].ex
    /\ pre.symlink = "stale"

\* C10: for a reference that is neither a version tag nor a digest, Stage
\* has returned an error as soon as it has taken a step, with no I/O at
\* all and nothing under the data directory changed.
C10_BadReferenceNoIO ==
    (mode = "stage" /\ BadShape /\ pc # "Stage")
    => /\ result = "err"
       /\ stageErr = "reference"
       /\ pc = "Done"
       /\ io = {}
       /\ FsUntouched

\* C10 witness: Stage returned the reference error for a tag that is not a
\* version, with a matching archive in the images directory.
C10_Witness ==
    /\ result = "err"
    /\ stageErr = "reference"
    /\ ref.kind = "tag"
    /\ imgDir = "present"
    /\ \E i \in ImageIds : imgEnts[i].k = "has"

\* C11 (as stated): whenever Stage has returned without error, <dataDir>/bin
\* is the symlink to the bin directory of the reference of that run,
\* whatever it was before.
C11_Original ==
    (mode = "stage" /\ result = "ok") => symlink = "current"

\* C11 (amended): whenever Stage has returned without error, <dataDir>/bin
\* is the symlink to the bin directory of the reference of that run unless
\* one of the two calls of the symlink rewrite failed, which Stage ignores:
\* after a failed removal it is what it was before the run, after a failed
\* creation it is absent.
C11_SymlinkUnlessIgnoredFailure ==
    (mode = "stage" /\ result = "ok")
    => IF "symlink-remove-failed" \in io THEN symlink = pre.symlink
       ELSE IF "symlink-create-failed" \in io THEN symlink = "none"
       ELSE symlink = "current"

\* C11 witness: Stage succeeded and replaced a directory at <dataDir>/bin by
\* the symlink.
C11_Witness ==
    /\ result = "ok"
    /\ pre.symlink = "dir"
    /\ symlink = "current"
    /\ "symlink" \in io

NotAChart(e) == e.k = "file" /\ e.doc.kind \in {"junk", "other"}
C13_NonChartUntouched ==
    \A n \in Names :
        (mode = "twice" /\ pre.dest["charts"].ex
            /\ NotAChart(pre.dest["charts"].ents[n]))
        => /\ dest["charts"].ents[n] = pre.dest["charts"].ents[n]
           /\ rwFault[n] # "read" => n \notin rwErrs
           /\ (pc = "Done" /\ rwErrs \subseteq {n} /\ rwFault[n] # "read")
                => result = "ok"

\* C13 witness: both passes are done without error over a directory with a
\* .yaml file that is not a chart, which was visited and left as it was.
C13_Witness ==
    /\ mode = "twice"
    /\ pc = "Done"
    /\ result = "ok"
    /\ \E n \in ChartFiles(pre.dest["charts"]) :
          /\ NotAChart(pre.dest["charts"].ents[n])
          /\ dest["charts"].ents[n] = pre.dest["charts"].ents[n]

\* C14 (as stated): the identity Stage computes for a version tag t is t,
\* "-" and the hash of t, so that it depends on the tag alone.
C14_Original ==
    (mode = "stage" /\ pc # "Stage" /\ ref.kind = "tag"
        /\ releasePattern(ref.tag))
    => refDigest = [tag |-> ref.tag, sep |-> "-", sha |-> Hex12Sha256(ref.tag)]

\* C14 (amended): the identity Stage computes for a version tag t is t, "-"
\* and the hash of the whole reference string (registry, repository and
\* tag): it is the same for the same reference, and the same tag under
\* another registry has another identity.
C14_IdentityOfReferenceString ==
    (mode = "stage" /\ pc # "Stage" /\ ref.kind = "tag"
        /\ releasePattern(ref.tag))
    => /\ refDigest = [tag |-> ref.tag, sep |-> "-",
                       sha |-> Hex12Sha256(RefString(ref, registry))]
       /\ \A reg \in {DefaultRegistry, PrivateRegistry} :
             (releaseRefDigest(ref, reg).id = refDigest) = (reg = registry)

\* C14 witness: Stage has computed the identity of a version tag under the
\* private registry and gone on to local resolution.
C14_Witness ==
    /\ pc = "Preload"
    /\ ref = TagRef(<<"v", "1">>)
    /\ registry = PrivateRegistry
    /\ refDigest.tag = <<"v", "1">>

\* C15: once extract has failed, extractToDirs places nothing: the runtime
\* bin directory, the manifests directory and their parents are as they
\* were before the call, up to the return of Stage.
C15_FailedExtractionPlacesNothing ==
    (mode = "stage" /\ \E e \in ret : e.op = "extract")
    => /\ dest = pre.dest
       /\ parent = pre.parent
       /\ tried = {}
       /\ "place" \notin io

\* C15 witness: extractToDirs returns the error of an extraction that failed
\* after a part of the image was staged, over destinations that existed.
C15_Witness ==
    /\ pc = "Return"
    /\ \E e \in ret : e.op = "extract"
    /\ tpos > 2
    /\ pre.dest["charts"].ex
    /\ ~staging.ex

\* C16 (as stated): whatever the names of the headers, everything extract
\* has created lies inside the target directory and has, relative to it, a
\* parent path that is a key of dirs; a header whose directory is no key of
\* dirs changes nothing.
C16_Original ==
    /\ \A e \in xfs :
          /\ ~Outside(e.p)
          /\ Len(e.p) = 2
          /\ e.p[1] \in xdirs
    /\ ~xskip

\* C16 (amended): whatever the names of the headers, everything extract has
\* created lies inside the target directory and is, relative to it, either
\* the path of a key of dirs itself or a path whose parent path is a key of
\* dirs; a header whose directory is no key of dirs changes nothing.
C16_AllowList ==
    /\ \A e \in xfs :
          /\ ~Outside(e.p)
          /\ Len(e.p) \in {1, 2}
          /\ e.p[1] \in xdirs
          /\ \A i \in 1..Len(e.p) : e.p[i] \notin {"", ".."}
    /\ ~xskip

\* C16 witness: extract has returned nil after it created the directory of
\* a key of dirs and a file in it, with bin no key of dirs.
C16_Witness ==
    /\ xpc = "eof"
    /\ xdirs = {"charts"}
    /\ [p |-> <<"charts">>, k |-> "dir"] \in xfs
    /\ [p |-> <<"charts", "x">>, k |-> "file"] \in xfs

\* C17: in the per-file merge, the calls made for a staged name are one
\* rename, or a rename, the removal of the destination entry and, once that
\* succeeded, a second rename; a name has at most one failure recorded, and
\* when the merge of a subtree is over every staged name of it was
\* attempted, whatever failed for the names before.
MergeOver(s) ==
    /\ Placing
    /\ s \in tried
    /\ ~(pc = "Merge" /\ cur = s)
    /\ pre.dest[s].ex
    /\ ~IsEmptyDir(pre.dest[s])
    /\ \A e \in fails : ~(e.sub = s /\ e.name = 0)
C17_EachFileAttempted ==
    \A s \in Subs, n \in Names :
        /\ calls[s][n] \in {<<>>, <<"rename">>, <<"rename", "remove">>,
                            <<"rename", "remove", "rename">>}
        /\ Err(s, n, "remove") \in fails => calls[s][n] = <<"rename", "remove">>
        /\ Cardinality({e \in fails : e.sub = s /\ e.name = n}) <= 1
        /\ (MergeOver(s) /\ Staged(s)[n] # None) => calls[s][n] # <<>>

\* C17 witness: the merge of the manifests is over; the rename failed for
\* one staged file and a later entry was moved in with a second rename,
\* after the directory in its way was removed.
C17_Witness ==
    /\ pc = "Return"
    /\ \E n, m \in Names :
          /\ n < m
          /\ Err("charts", n, "rename") \in ret
          /\ calls["charts"][m] = <<"rename", "remove", "rename">>
          /\ m \in moved["charts"]

\* C18 (as stated): once the first pass of setChartValues has handled a
\* chart without error, whatever its Set mapping held before (no entry, a
\* string, an integer), the stored data directory and default registry are
\* the desired ones (no entry counting as the empty string), JobImage is
\* the prefixed or the plain job image, and the file was rewritten exactly
\* when one of the three differed from the desired value before.
Holds(v, want) == v = StrV(want) \/ (v = NoVal /\ want = <<>>)
C18_Postcondition ==
    \A n \in Names :
        (mode = "twice" /\ run = 1 /\ pc = "RwFile"
            /\ n \in ChartFiles(pre.dest["charts"]) \ (rwTodo \cup rwErrs)
            /\ 0 \notin rwErrs
            /\ pre.dest["charts"].ents[n].doc.kind = "chart")
        => LET old == Decode(pre.dest["charts"].ents[n].doc)
               new == Decode(dest["charts"].ents[n].doc)
           IN  /\ Holds(new.dd, dataDir)
               /\ Holds(new.reg, registry)
               /\ new.job = jobImage(registry)
               /\ (dest["charts"].ents[n] # pre.dest["charts"].ents[n])
                    = ~(/\ Holds(old.dd, dataDir)
                        /\ Holds(old.reg, registry)
                        /\ old.job = jobImage(registry))

\* C19: the registries local resolution tries are the configured one and,
\* when that is not the default one, the default one after it; the second
\* is tried only when the first attempt gave no image; when local
\* resolution ends without an image every one of them was tried, whatever
\* error an attempt met, and Stage goes on to the remote pull: no error of
\* local resolution ends Stage.
Expected ==
    IF registry = DefaultRegistry THEN <<registry>>
    ELSE <<registry, DefaultRegistry>>
FirstFinds ==
    /\ ref.kind = "tag"
    /\ imgDir = "present"
    /\ ~WalkFails(imgEnts)
    /\ \E i \in ImageIds : imgEnts[i] = Has(registry)
LocalOver == mode = "stage" /\ pc \notin {"Stage", "Preload", "Scan"}
C19_BothRegistriesTried ==
    mode = "stage"
    => /\ Len(attempts) <= Len(Expected)
       /\ attempts = SubSeq(Expected, 1, Len(attempts))
       /\ Len(attempts) = 2 => ~FirstFinds
       /\ (img = "local" /\ Len(attempts) = 1) => FirstFinds
       /\ (LocalOver /\ stageErr # "reference" /\ img # "local")
            => /\ attempts = Expected
               /\ pc = "Remote" \/ "registries" \in io
       /\ (pc = "Done" /\ result = "err")
            => stageErr \in {"reference", "registries", "pull", "extract",
                             "chmod", "rewrite"}

\* C19 witness: the walk of the images directory failed under the private
\* registry, the default registry was tried all the same, and Stage went
\* on to the remote pull.
C19_Witness ==
    /\ pc = "Remote"
    /\ registry = PrivateRegistry
    /\ WalkFails(imgEnts)
    /\ attempts = <<PrivateRegistry, DefaultRegistry>>
    /\ "walk-images" \in io

\* C20: with one Stage at a time on a data directory whose runtime bin
\* directory only Stage creates, in every state, those after a kill at any
\* step and a new run included, a runtime bin directory that exists holds
\* every file of the bin subtree of the image; so a run that skips bin
\* (the plan holds charts only) returns a complete bin directory.
C20_BinCompleteWhenPresent ==
    /\ dest["bin"].ex => dest["bin"] = DirOf(ImageFiles(tar, "bin"))
    /\ (pc \notin {"Stage", "Preload", "Scan", "Remote", "Plan"}
            /\ "stat-bin" \in io /\ plan = {"charts"})
         => /\ pre.dest["bin"] = DirOf(ImageFiles(tar, "bin"))
            /\ \A n \in Names : ImageFiles(tar, "bin")[n] # None

\* C20 witness: Stage, run again after a kill, skipped bin and returned
\* without error.
C20_Witness ==
    /\ runs >= 1
    /\ result = "ok"
    /\ plan = {"charts"}
    /\ pre.dest["bin"].ex
    /\ pre.dest["charts"].ex



\* C21: no file handle leaks from the openers of preloadFile: a handle an
\* opener opened is closed before the opener returns an error, and is closed
\* once the Close of the stream the opener returned has returned.
C21_NoHandleLeaks ==
    /\ opRet = "err" => fh # "open"
    /\ (opRet = "stream" /\ closeRet # "pending") => fh = "closed"

\* C23: once extractToDirs has returned an error, an accumulated placement
\* error included, Stage runs neither Chmod nor the rewriter nor the symlink
\* replacement, leaves the symlink as it was and returns an error; and when
\* Stage returns without error, the runtime bin directory (the path Stage
\* returns, built from the identity it computed) exists.
C23_ExtractErrorStopsStage ==
    /\ (mode = "stage" /\ ret # {})
       => /\ io \cap {"chmod", "rewrite", "symlink"} = {}
          /\ writes = 0
          /\ symlink = pre.symlink
          /\ pc = "Done" => (result = "err" /\ stageErr = "extract")
    /\ (mode = "stage" /\ result = "ok")
       => /\ dirExists(dest["bin"])
          /\ refDigest # NoDigest
          /\ ret = {}

\* C23 witness: Stage has returned the error of extractToDirs, which placed
\* bin and accumulated an error for charts, over a stale symlink.
C23_Witness ==
    /\ pc = "Done"
    /\ result = "err"
    /\ \E e \in ret : e.sub = "charts"
    /\ \A e \in ret : e.sub # "bin"
    /\ ~pre.dest["bin"].ex
    /\ dest["bin"].ex
    /\ pre.symlink = "stale"

\* C22: two invocations of Stage at once on one data directory and one
\* image, in any interleaving and without injected failure: the staging
\* directories of the two are distinct and neither removes the other's,
\* neither returns an error, and once both have returned the runtime bin
\* directory holds exactly the files of the image's bin subtree.
C22_ConcurrentStages ==
    mode = "race" =>
       /\ \A p, q \in Procs :
             inv[p].tempDir # 0
             => /\ temps[inv[p].tempDir].ex
                /\ (p # q => inv[q].tempDir # inv[p].tempDir)
       /\ \A p \in Procs : inv[p].ret # "err"
       /\ (\A p \in Procs : inv[p].ret = "ok")
          => dest["bin"] = DirOf(ImageFiles(tar, "bin"))

====
